---- MODULE Spec2Model ----
(***************************************************************************)
(* Model of the multi-ingester pipeline of time-value-data-analyser:      *)
(*   - the TTL-bound LRU Dedup store      (internal/store, Dedup)         *)
(*   - the orchestrator cycle             (cmd/main.go, runOnce and main) *)
(* Time is a discrete clock `now`; every time.Now() of one Seen or Mark   *)
(* call reads the same value, and a duration is a number of clock units.  *)
(***************************************************************************)
EXTENDS Integers, Sequences, FiniteSets, TLC

\* ------------------------------------------------------------------ bounds

\* Number of distinct keys offered to the store on its own.
NumKeys == 3
\* The clock runs from 0 to MaxTime.
MaxTime == 2
\* Largest max_keys a configuration sets (0 stands for "unset").
MaxKeysCfg == 2
\* Largest ttl a configuration sets (0 stands for "unset").
MaxTTLCfg == 2
\* Number of distinct upstream items (ids) of a source.
NumIds == 2
\* Longest batch a fetch returns.
MaxBatch == 2
\* Number of cycles the orchestrator runs.
MaxCycles == 2
\* Longest batch of a fetch followed through one source step only.
LongBatch == 3

\* Cycles of a run in which ticks arrive while a cycle is in progress.
LongRun == 3
\* Largest attempts argument of Retry.
MaxAttempts == 3
\* Largest initial and max argument of Retry, in clock units.
MaxDelay == 3
\* Apply on its own: rules per category of cfg.Post, events per batch.
MaxRules == 2
MaxEvents == 2

\* Goroutines that call the store at the same time.
NumThreads == 2

\* metrics on its own: IncCounter calls of a run, largest increment.
MaxCalls == 3
MaxInc == 2

\* gta on its own: requests of one Fetch, rows of a page, latest date.
MaxRequests == 3
MaxRows == 2
MaxDate == 2

\* coindesk on its own: largest page_size and max_pages a configuration sets.
MaxPageCfg == 2

\* ------------------------------------------------------- program constants

\* NewDedup: maxKeys = 10000 when the argument is not positive.
DefaultMaxKeys == 10000
\* NewDedup: ttl = 24 * time.Hour when the argument is not positive
\* (in clock units: longer than any run of the model).
DefaultTTL == 24

\* coinDeskSource.Fetch: page size and page count of an unset configuration.
DefaultPageSize == 100
DefaultMaxPages == 3

VARIABLES
    d,          \* the Dedup store: [cap, ttl, ll, items]
    now,        \* the clock read by time.Now()
    op,         \* the last Seen/Mark call on the store and what it did
    lastMark,   \* key -> time of the most recent Mark(key), -1 if none
    touchOrder, \* keys by recency of touch (Mark, or Seen returning true)
    capEvicted, \* keys evicted for capacity since their most recent Mark
    srcs,       \* main: the configured sources (by Name()), in order
    sinks,      \* main: the configured sinks, in construction order
    once,       \* main: the -once flag
    pc,         \* main: where the orchestrator is
    cycle,      \* main: number of runOnce calls started
    si,         \* runOnce: index of the source being processed
    fetched,    \* runOnce: the batch src.Fetch returned
    ferr,       \* runOnce: src.Fetch returned an error
    fi,         \* runOnce: index of the next event of the dedup loop
    out,        \* runOnce: the batch left after the dedup block
    evs,        \* runOnce: the batch handed to the sinks (after Apply)
    g,          \* runOnce: sink -> state of its push goroutine
    res,        \* sink -> result of its Push for the current batch
    pushLog,    \* Push invocations for the current batch: [sink, batch]
    errCh,      \* runOnce: the buffered error channel
    wg,         \* runOnce: the WaitGroup counter
    joined,     \* what the last fan-out join logged and decided
    counter,    \* metrics: events_pushed_total{source}
    cancelled,  \* main: ctx.Done() is closed
    tickPending,\* main: a tick is buffered in ticker.C
    watch,      \* a key whose last push failed, followed by the properties
    prev,       \* the batch the dedup loop last went through, and when
    attempts,   \* Retry: the attempts argument
    initial,    \* Retry: the initial argument
    max,        \* Retry: the max argument
    rd,         \* Retry: the local d, the current delay
    ri,         \* Retry: the loop index i
    rpc,        \* Retry: where the call is
    ctxDone,    \* Retry: ctx.Done() is closed
    woke,       \* Retry: what ends the select: timer, a ctx that woke it
                \* ("ctx") or a ctx found done on entry ("ctxReady")
    calls,      \* Retry: results of the fn() invocations so far
    waits,      \* Retry: the delays of the waits started so far
    ret,        \* Retry: the value returned
    acfg,       \* Apply: the cfg argument (cfg.Post)
    ain,        \* Apply: the events argument
    apc,        \* Apply: where the call is
    ai,         \* Apply: index of the event of the outer loop
    ar,         \* Apply: index of the next rule of the running category
    arules,     \* Apply: krules, rrules and mrules, built once per call
    acur,       \* Apply: the loop's copy ev of the event
    aout,       \* Apply: the slice out
    alog,       \* the rules evaluated on ev so far, with what each did
    afirst,     \* what an earlier Apply of the same arguments returned
    mu,         \* Dedup.mu: the goroutine holding the mutex, 0 when free
    th,         \* the goroutines that call the store: call, position, locals
    regMu,      \* metrics: holder of counters.mu, 0 when free
    vecMu,      \* metrics: holder of each counterVec's mu, 0 when free
    vecs,       \* metrics: counters.m, name -> data (labelKey -> value)
    mth,        \* metrics: the goroutines calling IncCounter and Dump
    mdone,      \* the IncCounter calls that have returned: <<name, labels, v>>
    ncalls,     \* metrics: IncCounter calls made so far
    gcfg,       \* gta: the adapter's configuration (date_filter, state_path)
    gpc,        \* gta: where Fetch is
    gfilters,   \* gta: filters, the primary first
    gkey,       \* gta: index in filters of the inner loop
    goffset,    \* gta: offset
    gall,       \* gta: all, the events mapped so far (their dates)
    glatest,    \* gta: latest
    greqs,      \* gta: the requests sent: filter, offset, rows returned
    gret,       \* gta: what Fetch returned
    gstate,     \* gta: LastAnnounced of the state file
    ccfg,       \* coindesk: the adapter's configuration
    cpc,        \* coindesk: where Fetch is
    cpage,      \* coindesk: page
    cevents,    \* coindesk: all, the events mapped so far (their Published)
    clatest,    \* coindesk: latest
    cgot,       \* coindesk: gotAny
    cstate,     \* coindesk: LastPublished of the state file, 0 when there is none
    cret        \* coindesk: what Fetch returned

storeVars == <<d, now, op, lastMark, touchOrder, capEvicted>>

orchVars == <<srcs, sinks, once, pc, cycle, si, fetched, ferr, fi, out, evs, g, res,
              pushLog, errCh, wg, joined, counter, cancelled, tickPending,
              watch, prev>>

retryVars == <<attempts, initial, max, rd, ri, rpc, ctxDone, woke, calls, waits, ret>>

applyVars == <<acfg, ain, apc, ai, ar, arules, acur, aout, alog, afirst>>

lockVars == <<mu, th>>

\* The variables of the parts modelled after the rule engine.
metricVars == <<regMu, vecMu, vecs, mth, mdone, ncalls>>

gtaVars == <<gcfg, gpc, gfilters, gkey, goffset, gall, glatest, greqs, gret, gstate>>

cdVars == <<ccfg, cpc, cpage, cevents, clatest, cgot, cstate, cret>>

restVars == <<lockVars, metricVars, gtaVars, cdVars>>

vars == <<storeVars, orchVars, retryVars, applyVars, restVars>>

\* No goroutine calls the store through its mutex.
LockOff == mu = 0 /\ th = <<>>

\* No goroutine uses the metrics registry.
MetricsOff ==
    /\ regMu = 0 /\ vecMu = <<>> /\ vecs = <<>> /\ mth = <<>>
    /\ mdone = <<>> /\ ncalls = 0

\* No GTA fetch is running.
GtaOff ==
    /\ gcfg = <<>> /\ gpc = "off" /\ gfilters = <<>> /\ gkey = 0 /\ goffset = 0
    /\ gall = <<>> /\ glatest = 0 /\ greqs = <<>> /\ gret = <<>> /\ gstate = 0

\* No CoinDesk fetch is running.
CdOff ==
    /\ ccfg = <<>> /\ cpc = "off" /\ cpage = 0 /\ cevents = <<>> /\ clatest = 0
    /\ cgot = FALSE /\ cstate = 0 /\ cret = <<>>

RestOff == LockOff /\ MetricsOff /\ GtaOff /\ CdOff

\* ------------------------------------------------------------ Dedup store

DedupKeys == {"k" \o ToString(i) : i \in 1..NumKeys}

\* container/list helpers; the front of ll is index 1 (most recent).
RemoveAt(s, i) == SubSeq(s, 1, i - 1) \o SubSeq(s, i + 1, Len(s))

MoveToFront(s, i) == <<s[i]>> \o RemoveAt(s, i)

\* d.items[key]: the list element the lookup table points to.
ElemOf(dd, key) == CHOOSE i \in 1..Len(dd.ll) : dd.ll[i].key = key

NewDedup(maxKeys, ttl) ==
    [cap   |-> IF maxKeys <= 0 THEN DefaultMaxKeys ELSE maxKeys,
     ttl   |-> IF ttl <= 0 THEN DefaultTTL ELSE ttl,
     ll    |-> <<>>,
     items |-> {}]

\* Variant of Before: the boundary instant still counts as unexpired.
BeforeOrAt(t, exp) == t <= exp

\* time.Now().Before(exp)
Before(t, exp) == t < exp

\* Variant of Seen: an entry is a hit whatever its expiry.
SeenForever(dd, key, t) ==
    IF key \in dd.items
    THEN [d |-> [dd EXCEPT !.ll = MoveToFront(dd.ll, ElemOf(dd, key))], ret |-> TRUE]
    ELSE [d |-> dd, ret |-> FALSE]

\* Variant of Seen: a hit also renews the expiry.
SeenRenewing(dd, key, t) ==
    IF key \in dd.items
    THEN LET i  == ElemOf(dd, key)
             en == dd.ll[i]
         IN  IF t < en.exp
             THEN [d |-> [dd EXCEPT !.ll = <<[en EXCEPT !.exp = t + dd.ttl]>>
                                           \o RemoveAt(dd.ll, i)],
                   ret |-> TRUE]
             ELSE [d |-> [dd EXCEPT !.ll = RemoveAt(dd.ll, i),
                                    !.items = dd.items \ {key}],
                   ret |-> FALSE]
    ELSE [d |-> dd, ret |-> FALSE]

\* Seen returns the store after the call and the boolean result.
Seen(dd, key, t) ==
    IF key \in dd.items
    THEN LET i  == ElemOf(dd, key)
             en == dd.ll[i]
         IN  IF Before(t, en.exp)
             THEN [d |-> [dd EXCEPT !.ll = MoveToFront(dd.ll, i)], ret |-> TRUE]
             ELSE [d |-> [dd EXCEPT !.ll = RemoveAt(dd.ll, i),
                                    !.items = dd.items \ {key}],
                   ret |-> FALSE]
    ELSE [d |-> dd, ret |-> FALSE]

\* Variant of MarkRefresh: moves to front but keeps the old expiry.
MarkRefreshKeepExp(dd, key, t) ==
    [dd EXCEPT !.ll = MoveToFront(dd.ll, ElemOf(dd, key))]

\* Mark, existing key: refresh the expiry, move to front, return.
MarkRefresh(dd, key, t) ==
    LET i  == ElemOf(dd, key)
        en == [dd.ll[i] EXCEPT !.exp = t + dd.ttl]
    IN  [dd EXCEPT !.ll = <<en>> \o RemoveAt(dd.ll, i)]

\* Variant of MarkInsert: the expiry is set to now, without the TTL.
MarkInsertNoTTL(dd, key, t) ==
    [dd EXCEPT !.ll = <<[key |-> key, exp |-> t]>> \o dd.ll,
               !.items = dd.items \cup {key}]

\* Mark, new key: PushFront and items[key] = el.
MarkInsert(dd, key, t) ==
    [dd EXCEPT !.ll = <<[key |-> key, exp |-> t + dd.ttl]>> \o dd.ll,
               !.items = dd.items \cup {key}]

\* Variant of EvictVictim: Front() instead of Back().
EvictVictimFront(ll) == 1

\* Which element the capacity loop removes: d.ll.Back().
EvictVictim(ll) == Len(ll)

\* Variant of EvictOverCap: the loop stops one entry too early.
RECURSIVE EvictOverCapLate(_)
EvictOverCapLate(dd) ==
    IF Len(dd.ll) > dd.cap + 1
    THEN EvictOverCapLate([dd EXCEPT !.ll = RemoveAt(dd.ll, Len(dd.ll)),
                                     !.items = dd.items \ {dd.ll[Len(dd.ll)].key}])
    ELSE dd

\* for d.ll.Len() > d.cap { remove Back }
RECURSIVE EvictOverCap(_)
EvictOverCap(dd) ==
    IF Len(dd.ll) > dd.cap
    THEN LET i == EvictVictim(dd.ll)
         IN  EvictOverCap([dd EXCEPT !.ll = RemoveAt(dd.ll, i),
                                     !.items = dd.items \ {dd.ll[i].key}])
    ELSE dd

\* for { t := Back; if nil or unexpired break; remove t }
RECURSIVE SweepExpired(_, _)
SweepExpired(dd, t) ==
    IF dd.ll = <<>> THEN dd
    ELSE LET back == dd.ll[Len(dd.ll)]
         IN  IF Before(t, back.exp) THEN dd
             ELSE SweepExpired([dd EXCEPT !.ll = RemoveAt(dd.ll, Len(dd.ll)),
                                          !.items = dd.items \ {back.key}], t)

\* Variant of Mark: nothing is recorded.
MarkSkipped(dd, key, t) == dd

Mark(dd, key, t) ==
    IF key \in dd.items
    THEN MarkRefresh(dd, key, t)
    ELSE SweepExpired(EvictOverCap(MarkInsert(dd, key, t)), t)

\* The keys the capacity loop of Mark(dd, key, t) removes.
CapEvictedBy(dd, key, t) ==
    IF key \in dd.items THEN {}
    ELSE LET ins == MarkInsert(dd, key, t)
         IN  ins.items \ EvictOverCap(ins).items

\* ------------------------------------------------------------- strings

CharAt(s, i) == SubSeq(s, i, i)

\* unicode.ToLower on the letters the model's strings are made of.
LowerChar(c) ==
    CASE c = "A" -> "a"
      [] c = "B" -> "b"
      [] c = "C" -> "c"
      [] c = "D" -> "d"
      [] c = "E" -> "e"
      [] c = "F" -> "f"
      [] c = "G" -> "g"
      [] c = "H" -> "h"
      [] c = "I" -> "i"
      [] c = "J" -> "j"
      [] c = "K" -> "k"
      [] c = "L" -> "l"
      [] c = "M" -> "m"
      [] c = "N" -> "n"
      [] c = "O" -> "o"
      [] c = "P" -> "p"
      [] c = "Q" -> "q"
      [] c = "R" -> "r"
      [] c = "S" -> "s"
      [] c = "T" -> "t"
      [] c = "U" -> "u"
      [] c = "V" -> "v"
      [] c = "W" -> "w"
      [] c = "X" -> "x"
      [] c = "Y" -> "y"
      [] c = "Z" -> "z"
      [] OTHER -> c

\* strings.ToLower
RECURSIVE ToLower(_)
ToLower(s) ==
    IF s = "" THEN "" ELSE LowerChar(CharAt(s, 1)) \o ToLower(SubSeq(s, 2, Len(s)))

\* strings.TrimSpace (the model's only white space is the blank)
RECURSIVE TrimSpace(_)
TrimSpace(s) ==
    IF s = "" THEN ""
    ELSE IF CharAt(s, 1) = " " THEN TrimSpace(SubSeq(s, 2, Len(s)))
    ELSE IF CharAt(s, Len(s)) = " " THEN TrimSpace(SubSeq(s, 1, Len(s) - 1))
    ELSE s

\* strings.Contains
Contains(s, w) ==
    \E i \in 1..(Len(s) - Len(w) + 1) : SubSeq(s, i, i + Len(w) - 1) = w

\* regexp.Compile succeeds. The model's patterns are literals with the
\* wildcard ".", an optional leading "^" and an optional trailing "$";
\* a pattern holding a group or class opener is one that was never closed.
RegexCompiles(expr) ==
    \A i \in 1..Len(expr) : CharAt(expr, i) \notin {"(", "[", ")"}

\* re.MatchString(val) for a pattern that compiles.
MatchString(expr, val) ==
    LET anchS == Len(expr) >= 1 /\ CharAt(expr, 1) = "^"
        anchE == Len(expr) >= 1 /\ CharAt(expr, Len(expr)) = "$"
        body  == SubSeq(expr, IF anchS THEN 2 ELSE 1,
                              IF anchE THEN Len(expr) - 1 ELSE Len(expr))
        n     == Len(body)
        At(i) == \A j \in 1..n :
                    CharAt(body, j) = "." \/ CharAt(val, i + j - 1) = CharAt(body, j)
    IN  \E i \in 1..(Len(val) - n + 1) :
            /\ anchS => i = 1
            /\ anchE => i + n - 1 = Len(val)
            /\ At(i)

\* ------------------------------------------------------------ rule engine

\* for k, v := range labels { ev.Labels[k] = v }
MergeLabels(labels, new) ==
    [k \in DOMAIN labels \cup DOMAIN new |->
        IF k \in DOMAIN new THEN new[k] ELSE labels[k]]

\* Variant of SetLabel: the label map is replaced by the one entry.
SetLabelAlone(labels, key, val) == [k \in {key} |-> val]

\* ev.Labels[key] = val
SetLabel(labels, key, val) ==
    [k \in DOMAIN labels \cup {key} |-> IF k = key THEN val ELSE labels[k]]

\* Apply: the regex rules kept after the pre-compile loop.
RegexRules(cfg) ==
    SelectSeq(cfg.Regex, LAMBDA rr :
        /\ TrimSpace(rr.Field) # ""
        /\ TrimSpace(rr.Expr) # ""
        /\ RegexCompiles(rr.Expr))

\* Apply: the words of a keyword rule, trimmed, lower-cased, blanks dropped.
RECURSIVE NormalWords(_)
NormalWords(when) ==
    IF when = <<>> THEN <<>>
    ELSE LET w == TrimSpace(Head(when))
         IN  (IF w # "" THEN <<ToLower(w)>> ELSE <<>>) \o NormalWords(Tail(when))

\* Apply: the keyword rules kept after normalisation.
RECURSIVE KeywordRules(_)
KeywordRules(kws) ==
    IF kws = <<>> THEN <<>>
    ELSE LET kr    == Head(kws)
             words == NormalWords(kr.When)
         IN  (IF words = <<>> THEN <<>>
              ELSE <<[words |-> words, labels |-> kr.Labels]>>)
             \o KeywordRules(Tail(kws))

\* A map rule is kept unless its field is blank or its mapping empty.
MapKept(mr) == TrimSpace(mr.Field) # "" /\ DOMAIN mr.Mapping # {}

\* Variant of MapOut: the output key is never defaulted.
MapOutAsGiven(mr) == mr.OutKey

\* out := mr.OutKey; if out == "" { out = mr.Field }
MapOut(mr) == IF mr.OutKey = "" THEN mr.Field ELSE mr.OutKey

\* Apply: the map rules kept, the output key defaulted to the field.
RECURSIVE MapRules(_)
MapRules(maps) ==
    IF maps = <<>> THEN <<>>
    ELSE LET mr == Head(maps)
         IN  (IF ~MapKept(mr) THEN <<>>
              ELSE <<[field   |-> mr.Field,
                      outKey  |-> MapOut(mr),
                      mapping |-> mr.Mapping]>>)
             \o MapRules(Tail(maps))

\* Variant of GetField: the label bag is not looked at.
GetFieldNoLabels(e, name) ==
    LET n == ToLower(name)
    IN  CASE n = "title"   -> e.Title
          [] n = "summary" -> e.Summary
          [] n = "url"     -> e.URL
          [] n \in {"lang", "language"} -> e.Lang
          [] n = "country" -> e.Country
          [] OTHER -> ""

\* Apply: getField
GetField(e, name) ==
    LET n == ToLower(name)
    IN  CASE n = "title"   -> e.Title
          [] n = "summary" -> e.Summary
          [] n = "url"     -> e.URL
          [] n \in {"lang", "language"} -> e.Lang
          [] n = "country" -> e.Country
          [] OTHER -> IF name \in DOMAIN e.Labels THEN e.Labels[name] ELSE ""

\* Variant of KeywordMatches: one word found is enough.
KeywordMatchesAny(e, kr) ==
    LET titleLC == ToLower(e.Title)
        sumLC   == ToLower(e.Summary)
    IN  \E i \in 1..Len(kr.words) :
            Contains(titleLC, kr.words[i]) \/ Contains(sumLC, kr.words[i])

\* matched: no word is missing from both titleLC and sumLC.
KeywordMatches(e, kr) ==
    LET titleLC == ToLower(e.Title)
        sumLC   == ToLower(e.Summary)
    IN  \A i \in 1..Len(kr.words) :
            Contains(titleLC, kr.words[i]) \/ Contains(sumLC, kr.words[i])

\* Variant of RegexMatches: an empty value is matched like any other.
RegexMatchesEmptyToo(e, rr) == MatchString(rr.Expr, GetField(e, rr.Field))

\* val != "" && rr.re.MatchString(val)
RegexMatches(e, rr) ==
    LET val == GetField(e, rr.Field)
    IN  val # "" /\ MatchString(rr.Expr, val)

\* val != "" and mr.mapping[val] exists
MapMatches(e, mr) ==
    LET val == GetField(e, mr.field)
    IN  val # "" /\ val \in DOMAIN mr.mapping

\* Apply, step 1: the keyword rules in order.
RECURSIVE ApplyKeywords(_, _)
ApplyKeywords(e, krules) ==
    IF krules = <<>> THEN e
    ELSE LET kr == Head(krules)
         IN  ApplyKeywords(IF KeywordMatches(e, kr)
                           THEN [e EXCEPT !.Labels = MergeLabels(e.Labels, kr.labels)]
                           ELSE e,
                           Tail(krules))

\* Apply, step 2: the regex rules in order.
RECURSIVE ApplyRegex(_, _)
ApplyRegex(e, rrules) ==
    IF rrules = <<>> THEN e
    ELSE LET rr == Head(rrules)
         IN  ApplyRegex(IF RegexMatches(e, rr)
                        THEN [e EXCEPT !.Labels = MergeLabels(e.Labels, rr.Labels)]
                        ELSE e,
                        Tail(rrules))

\* Apply, step 3: the map rules in order.
RECURSIVE ApplyMaps(_, _)
ApplyMaps(e, mrules) ==
    IF mrules = <<>> THEN e
    ELSE LET mr == Head(mrules)
         IN  ApplyMaps(IF MapMatches(e, mr)
                       THEN [e EXCEPT !.Labels = SetLabel(e.Labels, mr.outKey,
                                                          mr.mapping[GetField(e, mr.field)])]
                       ELSE e,
                       Tail(mrules))

\* postprocess.Apply
Apply(events, cfg) ==
    IF events = <<>> THEN events
    ELSE [i \in 1..Len(events) |->
            ApplyMaps(ApplyRegex(ApplyKeywords(events[i], KeywordRules(cfg.Keywords)),
                                 RegexRules(cfg)),
                      MapRules(cfg.Maps))]

\* ------------------------------------------------- Apply, step by step

\* The orders in which a range over a Go map may visit the keys S.
Orders(S) ==
    {o \in [1..Cardinality(S) -> S] :
        \A i, j \in 1..Cardinality(S) : o[i] = o[j] => i = j}

\* Variant of MergeLabelsIn: the loop stops after the first key visited.
MergeLabelsFirst(labels, new, ord) ==
    IF ord = <<>> THEN labels ELSE SetLabel(labels, Head(ord), new[Head(ord)])

\* for k, v := range new { ev.Labels[k] = v }, the keys visited in order ord
RECURSIVE MergeLabelsIn(_, _, _)
MergeLabelsIn(labels, new, ord) ==
    IF ord = <<>> THEN labels
    ELSE MergeLabelsIn(SetLabel(labels, Head(ord), new[Head(ord)]), new, Tail(ord))

\* Variant of Phases: the map rules run first.
PhasesMapFirst == <<"map", "kw", "re">>

\* The three rule loops of the body of the event loop, in program order.
Phases == <<"kw", "re", "map">>

PhaseAfter(p) ==
    LET i == CHOOSE j \in 1..Len(Phases) : Phases[j] = p
    IN  IF i = Len(Phases) THEN "emit" ELSE Phases[i + 1]

\* krules, rrules and mrules as the head of Apply builds them from cfg.
RulesOf(cfg) ==
    [kw  |-> KeywordRules(cfg.Keywords),
     re  |-> RegexRules(cfg),
     map |-> MapRules(cfg.Maps)]

NoRules == [kw |-> <<>>, re |-> <<>>, map |-> <<>>]

\* postprocess.New(cfg) returns an error: regexp.Compile fails on one of
\* the patterns of cfg.Regex.
NewFails(cfg) == \E i \in 1..Len(cfg.Regex) : ~RegexCompiles(cfg.Regex[i].Expr)

\* No Apply call is running and none is set up.
ApplyOff ==
    /\ acfg = [Keywords |-> <<>>, Regex |-> <<>>, Maps |-> <<>>]
    /\ ain = <<>> /\ apc = "off" /\ ai = 0 /\ ar = 0 /\ arules = NoRules
    /\ acur = <<>> /\ aout = <<>> /\ alog = <<>> /\ afirst = <<>>

\* The state of the rest of the program while Apply runs on its own.
ApplyAlone == UNCHANGED <<storeVars, orchVars, retryVars, restVars>>

\* main, from the loaded configuration to the first runOnce: the dedup
\* store and the sources are built; nothing is built from cfg.Post.
StartUp ==
    /\ apc = "boot"
    /\ apc' = "ready"
    /\ UNCHANGED <<acfg, ain, ai, ar, arules, acur, aout, alog, afirst>>
    /\ ApplyAlone

\* evs = postprocess.Apply(evs, cfg.Post): an empty batch is returned as
\* it is; otherwise the rule lists are built and the event loop starts.
ApplyEnter ==
    /\ apc = "ready"
    /\ IF Len(ain) = 0
       THEN /\ apc' = "done"
            /\ aout' = ain
            /\ UNCHANGED <<ai, ar, arules, acur, alog>>
       ELSE /\ apc' = Phases[1]
            /\ arules' = RulesOf(acfg)
            /\ ai' = 1
            /\ ar' = 1
            /\ acur' = ain[1]
            /\ aout' = <<>>
            /\ alog' = <<>>
    /\ UNCHANGED <<acfg, ain, afirst>>
    /\ ApplyAlone

\* One keyword rule is evaluated on ev.
KeywordStep ==
    /\ apc = "kw"
    /\ ar <= Len(arules.kw)
    /\ LET kr  == arules.kw[ar]
           hit == KeywordMatches(acur, kr)
       IN  /\ \E ord \in Orders(DOMAIN kr.labels) :
                 acur' = IF hit
                         THEN [acur EXCEPT !.Labels = MergeLabelsIn(acur.Labels, kr.labels, ord)]
                         ELSE acur
           /\ alog' = Append(alog, [cat |-> "kw", idx |-> ar, hit |-> hit,
                                    writes |-> kr.labels])
    /\ ar' = ar + 1
    /\ UNCHANGED <<acfg, ain, apc, ai, arules, aout, afirst>>
    /\ ApplyAlone

\* One regex rule is evaluated on ev.
RegexStep ==
    /\ apc = "re"
    /\ ar <= Len(arules.re)
    /\ LET rr  == arules.re[ar]
           hit == RegexMatches(acur, rr)
       IN  /\ \E ord \in Orders(DOMAIN rr.Labels) :
                 acur' = IF hit
                         THEN [acur EXCEPT !.Labels = MergeLabelsIn(acur.Labels, rr.Labels, ord)]
                         ELSE acur
           /\ alog' = Append(alog, [cat |-> "re", idx |-> ar, hit |-> hit,
                                    writes |-> rr.Labels])
    /\ ar' = ar + 1
    /\ UNCHANGED <<acfg, ain, apc, ai, arules, aout, afirst>>
    /\ ApplyAlone

\* One map rule is evaluated on ev.
MapStep ==
    /\ apc = "map"
    /\ ar <= Len(arules.map)
    /\ LET mr  == arules.map[ar]
           hit == MapMatches(acur, mr)
           val == GetField(acur, mr.field)
       IN  /\ acur' = IF hit
                      THEN [acur EXCEPT !.Labels = SetLabel(acur.Labels, mr.outKey, mr.mapping[val])]
                      ELSE acur
           /\ alog' = Append(alog, [cat |-> "map", idx |-> ar, hit |-> hit,
                                    writes |-> IF hit THEN [k \in {mr.outKey} |-> mr.mapping[val]]
                                               ELSE [k \in {mr.outKey} |-> ""]])
    /\ ar' = ar + 1
    /\ UNCHANGED <<acfg, ain, apc, ai, arules, aout, afirst>>
    /\ ApplyAlone

\* A rule loop is over: the next one starts, or the event is complete.
CategoryEnd ==
    /\ apc \in {"kw", "re", "map"}
    /\ ar > Len(arules[apc])
    /\ apc' = PhaseAfter(apc)
    /\ ar' = 1
    /\ UNCHANGED <<acfg, ain, ai, arules, acur, aout, alog, afirst>>
    /\ ApplyAlone

\* out = append(out, ev); the next event, or return out.
Emit ==
    /\ apc = "emit"
    /\ aout' = Append(aout, acur)
    /\ IF ai < Len(ain)
       THEN /\ ai' = ai + 1
            /\ acur' = ain[ai + 1]
            /\ alog' = <<>>
            /\ apc' = Phases[1]
       ELSE /\ apc' = "done"
            /\ UNCHANGED <<ai, acur, alog>>
    /\ ar' = 1
    /\ UNCHANGED <<acfg, ain, arules, afirst>>
    /\ ApplyAlone

\* Apply is called once more with the same events and the same cfg; what
\* the first call returned is kept aside.
ApplyAgain ==
    /\ apc = "done"
    /\ afirst = <<>>
    /\ afirst' = <<aout>>
    /\ apc' = "ready"
    /\ ai' = 0 /\ ar' = 0 /\ arules' = NoRules
    /\ acur' = <<>> /\ aout' = <<>> /\ alog' = <<>>
    /\ UNCHANGED <<acfg, ain>>
    /\ ApplyAlone

\* ------------------------------------------------------------------ Retry

\* The value Retry returns: nil, the error of the n-th fn(), ctx.Err(), or
\* errors.New("retry: exhausted").
NoRet == [kind |-> "none", n |-> 0]
RetNil == [kind |-> "nil", n |-> 0]
RetErr(n) == [kind |-> "err", n |-> n]
RetCtx == [kind |-> "ctx", n |-> 0]
RetExhausted == [kind |-> "exhausted", n |-> 0]

\* if d < max { d *= 2; if d > max { d = max } }
NextDelay(dl, mx) ==
    IF dl < mx THEN (IF dl * 2 > mx THEN mx ELSE dl * 2) ELSE dl

\* Variant of LastAttempt: the bound is taken one too far.
LastAttemptLate(i, n) == i = n

\* if i == attempts-1 { return err }
LastAttempt(i, n) == i = n - 1

\* Variant of AfterWait: the select listens to the timer only.
AfterWaitTimerOnly(w) == "call"

\* select { case <-time.After(d): case <-ctx.Done(): return ctx.Err() }
AfterWait(w) == IF w \in {"ctx", "ctxReady"} THEN "return" ELSE "call"

\* No Retry call is running.
RetryOff ==
    /\ attempts = 0 /\ initial = 0 /\ max = 0 /\ rd = 0 /\ ri = 0
    /\ rpc = "off" /\ ctxDone = FALSE /\ woke = "none"
    /\ calls = <<>> /\ waits = <<>> /\ ret = NoRet

\* The state of the rest of the program while Retry runs on its own.
OthersIdle == UNCHANGED <<storeVars, orchVars, applyVars, restVars>>

\* Variant of SingleShot: the early return is missing.
SingleShotNever(n) == FALSE

\* if attempts <= 1
SingleShot(n) == n <= 1

\* Retry is called: attempts <= 1 goes straight to the single fn();
\* otherwise d := initial and the loop starts with i = 0.
RetryEnter ==
    /\ rpc = "start"
    /\ rd' = IF SingleShot(attempts) THEN rd ELSE initial
    /\ rpc' = IF SingleShot(attempts) THEN "single" ELSE "top"
    /\ UNCHANGED <<attempts, initial, max, ri, ctxDone, woke, calls, waits, ret>>
    /\ OthersIdle

\* attempts <= 1: return fn()
RetrySingle ==
    /\ rpc = "single"
    /\ \E r \in {"ok", "err"} :
          /\ calls' = Append(calls, r)
          /\ ret' = IF r = "ok" THEN RetNil ELSE RetErr(Len(calls) + 1)
    /\ rpc' = "done"
    /\ UNCHANGED <<attempts, initial, max, rd, ri, ctxDone, woke, waits>>
    /\ OthersIdle

\* The head of the loop: i < attempts; if i > 0 the select is entered with
\* a timer of d. A ctx already done is ready at once, and so may the timer
\* be; Go's select then picks either.
RetryTop ==
    /\ rpc = "top"
    /\ IF ri >= attempts
       THEN /\ ret' = RetExhausted
            /\ rpc' = "done"
            /\ UNCHANGED <<waits, woke>>
       ELSE IF ri > 0
       THEN /\ waits' = Append(waits, rd)
            /\ rpc' = "wait"
            /\ woke' \in IF ctxDone THEN {"ctxReady", "timer"} ELSE {"none"}
            /\ ret' = ret
       ELSE /\ rpc' = "call"
            /\ UNCHANGED <<waits, woke, ret>>
    /\ UNCHANGED <<attempts, initial, max, rd, ri, ctxDone, calls>>
    /\ OthersIdle

\* The timer of the wait fires while the select is blocked.
RetryTimer ==
    /\ rpc = "wait"
    /\ woke = "none"
    /\ woke' = "timer"
    /\ UNCHANGED <<attempts, initial, max, rd, ri, rpc, ctxDone, calls, waits, ret>>
    /\ OthersIdle

\* ctx is cancelled; a select blocked on it is woken by it.
RetryCancel ==
    /\ rpc \notin {"off", "done"}
    /\ ~ctxDone
    /\ ctxDone' = TRUE
    /\ woke' = IF rpc = "wait" /\ woke = "none" THEN "ctx" ELSE woke
    /\ UNCHANGED <<attempts, initial, max, rd, ri, rpc, calls, waits, ret>>
    /\ OthersIdle

\* The select returns with the case that ended it.
RetrySelect ==
    /\ rpc = "wait"
    /\ woke # "none"
    /\ IF AfterWait(woke) = "return"
       THEN ret' = RetCtx /\ rpc' = "done" /\ woke' = woke
       ELSE ret' = ret /\ rpc' = "call" /\ woke' = "none"
    /\ UNCHANGED <<attempts, initial, max, rd, ri, ctxDone, calls, waits>>
    /\ OthersIdle

\* fn() is invoked and returns; the rest of the loop body.
RetryCall ==
    /\ rpc = "call"
    /\ \E r \in {"ok", "err"} :
          /\ calls' = Append(calls, r)
          /\ IF r = "ok"
             THEN /\ ret' = RetNil
                  /\ rpc' = "done"
                  /\ UNCHANGED <<rd, ri>>
             ELSE IF LastAttempt(ri, attempts)
             THEN /\ ret' = RetErr(Len(calls) + 1)
                  /\ rpc' = "done"
                  /\ UNCHANGED <<rd, ri>>
             ELSE /\ rd' = NextDelay(rd, max)
                  /\ ri' = ri + 1
                  /\ rpc' = "top"
                  /\ ret' = ret
    /\ UNCHANGED <<attempts, initial, max, ctxDone, woke, waits>>
    /\ OthersIdle

\* ------------------------------------------------- the store on its own

NoOp == [name |-> "none", key |-> "", ret |-> FALSE, capEv |-> {}]

Touch(order, key) == <<key>> \o SelectSeq(order, LAMBDA k : k # key)

InitDedup ==
    /\ \E maxKeys \in 0..MaxKeysCfg, ttl \in 0..MaxTTLCfg :
          d = NewDedup(maxKeys, ttl)
    /\ now = 0
    /\ op = NoOp
    /\ lastMark = [k \in DedupKeys |-> -1]
    /\ touchOrder = <<>>
    /\ capEvicted = {}
    /\ srcs = <<>> /\ sinks = <<>> /\ once = FALSE /\ pc = "off" /\ cycle = 0 /\ si = 0
    /\ fetched = <<>> /\ ferr = FALSE /\ fi = 1 /\ out = <<>> /\ evs = <<>>
    /\ g = <<>> /\ res = <<>> /\ pushLog = <<>> /\ errCh = <<>> /\ wg = 0
    /\ joined = [src |-> "", n |-> 0, logged |-> {}, failed |-> {}, delivered |-> FALSE]
    /\ counter = <<>> /\ cancelled = FALSE /\ tickPending = FALSE
    /\ watch = [key |-> "", all |-> FALSE, at |-> 0, evicted |-> FALSE]
    /\ prev = [on |-> FALSE, cycle |-> 0, batch |-> <<>>, at |-> 0, fresh |-> FALSE]
    /\ RetryOff
    /\ ApplyOff
    /\ RestOff

DoSeen(key) ==
    LET r == Seen(d, key, now)
    IN  /\ d' = r.d
        /\ op' = [name |-> "Seen", key |-> key, ret |-> r.ret, capEv |-> {}]
        /\ touchOrder' = IF r.ret THEN Touch(touchOrder, key) ELSE touchOrder
        /\ UNCHANGED <<now, lastMark, capEvicted, orchVars, retryVars, applyVars, restVars>>

DoMark(key) ==
    LET ev == CapEvictedBy(d, key, now)
    IN  /\ d' = Mark(d, key, now)
        /\ op' = [name |-> "Mark", key |-> key, ret |-> FALSE, capEv |-> ev]
        /\ lastMark' = [lastMark EXCEPT ![key] = now]
        /\ touchOrder' = Touch(touchOrder, key)
        /\ capEvicted' = (capEvicted \ {key}) \cup ev
        /\ UNCHANGED <<now, orchVars, retryVars, applyVars, restVars>>

Tick ==
    /\ now < MaxTime
    /\ now' = now + 1
    /\ op' = NoOp
    /\ UNCHANGED <<d, lastMark, touchOrder, capEvicted, orchVars, retryVars, applyVars, restVars>>

NextDedup ==
    \/ \E key \in DedupKeys : DoSeen(key)
    \/ \E key \in DedupKeys : DoMark(key)
    \/ Tick

SpecDedup == InitDedup /\ [][NextDedup]_vars

\* ---------------------------------------------------------- orchestrator

\* Variant of HadErr: only a failure of every sink counts.
HadErrAllOnly(ch, n) == Len(ch) = n

\* for e := range errCh { hadErr = true }
HadErr(ch, n) == Len(ch) > 0

\* Variant of OnSinkError: the marks of the failed batch are taken back.
OnSinkErrorUnmark(dd, batch) ==
    LET keys == {batch[i].Source \o "::" \o batch[i].ID : i \in 1..Len(batch)}
    IN  [dd EXCEPT !.ll = SelectSeq(dd.ll, LAMBDA en : en.key \notin keys),
                   !.items = dd.items \ keys]

\* if hadErr { continue }: the store is left as the dedup loop marked it.
OnSinkError(dd, batch) == dd

\* Variant of WaitDone: the join returns when some push is done.
WaitDoneAny(w, n) == w < n

\* wg.Wait() returns
WaitDone(w, n) == w = 0

\* source.NewFromConfig: the adapter types; Name() is the type.
SourceTypes == <<"gta", "coindesk">>

\* cfg.Sources of the configurations the model runs: one source, or one
\* of each type.
OneSource == <<"gta">>
TwoSources == <<"gta", "coindesk">>

\* sinks: loki and/or victoria, in this order, at least one.
SinkConfigs == {<<"loki">>, <<"victoria">>, <<"loki", "victoria">>}

SinkSet == {sinks[i] : i \in 1..Len(sinks)}

\* The nil *store.Dedup of a configuration with dedup disabled.
NilDedup == [cap |-> 0, ttl |-> 0, ll |-> <<>>, items |-> {}]

Titles == <<"Tariff hike on steel", "Unrelated", "Steel quota">>

\* model.Event (Published and Raw are not read by the orchestrator).
Event(src, i) ==
    [ID |-> ToString(i), Source |-> src,
     Title |-> Titles[((i - 1) % Len(Titles)) + 1],
     Summary |-> "", URL |-> "", Lang |-> "", Country |-> "", Labels |-> <<>>]

EventsOf(src) == {Event(src, i) : i \in 1..NumIds}

\* What src.Fetch may return as its batch.
Batches(src) == UNION {[1..n -> EventsOf(src)] : n \in 0..MaxBatch}

\* The upstream items in two versions each: same id, different title.
LongEvents(src) ==
    {[Event(src, i) EXCEPT !.Title = Titles[t]] : i \in 1..NumIds, t \in 1..2}

\* What src.Fetch may return, up to LongBatch events.
LongBatches(src) == UNION {[1..n -> LongEvents(src)] : n \in 0..LongBatch}

\* Batches, tabulated per source type.
BatchTable ==
    [src \in {SourceTypes[i] : i \in 1..Len(SourceTypes)} |-> Batches(src)]

\* key := e.Source + "::" + e.ID
Key(e) == e.Source \o "::" \o e.ID

KeysOf(batch) == {Key(batch[i]) : i \in 1..Len(batch)}

\* cfg.Post
cfgPost ==
    [Keywords |-> <<[When |-> <<"tariff">>, Labels |-> [policy |-> "trade"]]>>,
     Regex    |-> <<[Field |-> "title", Expr |-> "^Un", Labels |-> [kind |-> "other"]]>>,
     Maps     |-> <<[Field |-> "policy", Mapping |-> [trade |-> "T"], OutKey |-> "topic"]>>]

NoJoin == [src |-> "", n |-> 0, logged |-> {}, failed |-> {}, delivered |-> FALSE]

NoWatch == [key |-> "", all |-> FALSE, at |-> 0, evicted |-> FALSE]

\* prev when the dedup loop's batches are not followed / not yet recorded.
PrevOff == [on |-> FALSE, cycle |-> 0, batch |-> <<>>, at |-> 0, fresh |-> FALSE]
PrevNone == [on |-> TRUE, cycle |-> 0, batch |-> <<>>, at |-> 0, fresh |-> FALSE]

\* main up to the first runOnce(), for a configuration with sources ss
\* and, when dedup is enabled, a Dedup store of dedups; pv is PrevNone
\* when the batches of the dedup loop are to be followed.
InitWith(ss, dedups, pv) ==
    /\ srcs = ss
    /\ prev = pv
    /\ RetryOff
    /\ ApplyOff
    /\ RestOff
    /\ d \in dedups \cup {NilDedup}
    /\ now = 0
    /\ op = NoOp
    /\ lastMark = <<>>
    /\ touchOrder = <<>>
    /\ capEvicted = {}
    /\ sinks \in SinkConfigs
    /\ once \in BOOLEAN
    /\ pc = "fetch"
    /\ cycle = 1
    /\ si = 1
    /\ fetched = <<>> /\ ferr = FALSE /\ fi = 1 /\ out = <<>> /\ evs = <<>>
    /\ g = [sk \in SinkSet |-> "idle"]
    /\ res = [sk \in SinkSet |-> "none"]
    /\ pushLog = [sk \in SinkSet |-> <<>>]
    /\ errCh = <<>>
    /\ wg = 0
    /\ joined = NoJoin
    /\ counter = [s \in {ss[i] : i \in 1..Len(ss)} |-> 0]
    /\ cancelled = FALSE
    /\ tickPending = FALSE
    /\ watch = NoWatch

\* One source, every dedup configuration.
Init ==
    InitWith(OneSource, {NewDedup(maxKeys, ttl) :
                            maxKeys \in 0..MaxKeysCfg, ttl \in 0..MaxTTLCfg}, PrevOff)

\* Two sources, dedup disabled or with the defaults.
InitMulti == InitWith(TwoSources, {NewDedup(0, 0)}, PrevOff)

\* Variant of Skip: the failure ends the run.
SkipStops ==
    /\ pc' = "done"
    /\ si' = si + 1
    /\ evs' = <<>>
    /\ UNCHANGED <<g, res, pushLog, errCh, wg>>

\* `continue`: on to the next source.
Skip ==
    /\ pc' = "fetch"
    /\ si' = si + 1
    /\ evs' = <<>>
    /\ UNCHANGED <<g, res, pushLog, errCh, wg>>

\* Apply, then one goroutine per sink: wg.Add(1); go func() {...}
FanOut(batch) ==
    /\ evs' = Apply(batch, cfgPost)
    /\ g' = [sk \in SinkSet |-> "running"]
    /\ res' = [sk \in SinkSet |-> "none"]
    /\ pushLog' = [sk \in SinkSet |-> <<>>]
    /\ errCh' = <<>>
    /\ wg' = Len(sinks)
    /\ pc' = "push"
    /\ si' = si

\* Variant of Proceed: the empty batch is fanned out like any other.
ProceedAlways(batch) == FanOut(batch)

\* if len(evs) == 0 { continue }, else enrich and fan out.
Proceed(batch) == IF Len(batch) = 0 THEN Skip ELSE FanOut(batch)

\* Variant of FetchFailed: the error of the fetch is ignored.
FetchFailedNever(err) == FALSE

\* if err != nil { log; continue }
FetchFailed(err) == err

\* evs, err := src.Fetch(ctx), up to the dedup loop, for a source that
\* returns one of batches.
Fetch(batches) ==
    /\ pc = "fetch"
    /\ si <= Len(srcs)
    /\ \E batch \in batches, err \in BOOLEAN :
          /\ fetched' = batch
          /\ ferr' = err
          /\ fi' = 1
          /\ out' = IF ~FetchFailed(err) /\ d = NilDedup THEN batch ELSE <<>>
          /\ IF FetchFailed(err) THEN Skip
             ELSE IF d = NilDedup \/ batch = <<>> THEN Proceed(batch)
             ELSE /\ pc' = "filter"
                  /\ evs' = <<>>
                  /\ UNCHANGED <<si, g, res, pushLog, errCh, wg>>
    /\ joined' = NoJoin
    /\ UNCHANGED <<retryVars, applyVars, restVars, prev, storeVars, srcs, sinks, once, cycle, counter, cancelled,
                   tickPending, watch>>

FetchStep == Fetch(BatchTable[srcs[si]])

FetchLong == Fetch(LongBatches(srcs[si]))

\* One iteration of the dedup loop; after the last one, the rest of the
\* source's step up to the start of the push goroutines.
FilterStep ==
    /\ pc = "filter"
    /\ LET e    == fetched[fi]
           key  == Key(e)
           r    == Seen(d, key, now)
           kept == IF r.ret THEN out ELSE Append(out, e)
       IN  /\ d' = IF r.ret THEN r.d ELSE Mark(r.d, key, now)
           /\ out' = kept
           /\ fi' = fi + 1
           /\ watch' = IF r.ret \/ watch = NoWatch THEN watch
                       ELSE IF watch.key = key THEN NoWatch
                       ELSE IF watch.key \in CapEvictedBy(r.d, key, now)
                            THEN [watch EXCEPT !.evicted = TRUE]
                       ELSE watch
           /\ prev' = IF prev.on /\ fi = Len(fetched)
                      THEN [on |-> TRUE, cycle |-> cycle, batch |-> fetched, at |-> now,
                            fresh |-> KeysOf(kept) = KeysOf(fetched)]
                      ELSE prev
           /\ IF fi = Len(fetched) THEN Proceed(kept)
              ELSE UNCHANGED <<pc, si, evs, g, res, pushLog, errCh, wg>>
    /\ UNCHANGED <<now, op, lastMark, touchOrder, capEvicted, srcs, sinks, once, cycle,
                   fetched, ferr, joined, counter, cancelled, tickPending, retryVars, applyVars, restVars>>

\* sk.Push(ctx, evs) is invoked and returns; on success the goroutine ends
\* at once (the deferred wg.Done()), on failure it goes on to report.
PushReturns(sk) ==
    /\ pc = "push"
    /\ g[sk] = "running"
    /\ pushLog' = [pushLog EXCEPT ![sk] = Append(@, evs)]
    /\ \E ok \in BOOLEAN :
          IF ok
          THEN /\ res' = [res EXCEPT ![sk] = "ok"]
               /\ g' = [g EXCEPT ![sk] = "done"]
               /\ wg' = wg - 1
          ELSE /\ res' = [res EXCEPT ![sk] = "err"]
               /\ g' = [g EXCEPT ![sk] = "sending"]
               /\ wg' = wg
    /\ UNCHANGED <<retryVars, applyVars, restVars, prev, storeVars, srcs, sinks, once, pc, cycle, si, fetched, ferr, fi, out, evs,
                   errCh, joined, counter, cancelled, tickPending, watch>>

\* Variant of ErrChCap: a channel of one slot.
ErrChCapOne(n) == 1

\* errCh := make(chan error, len(sinks)), for n sinks.
ErrChCap(n) == n

\* errCh <- fmt.Errorf(...) (blocks while the channel is full), then the
\* deferred wg.Done().
SendErr(sk) ==
    /\ pc = "push"
    /\ g[sk] = "sending"
    /\ Len(errCh) < ErrChCap(Len(sinks))
    /\ errCh' = Append(errCh, [src |-> srcs[si], sink |-> sk])
    /\ wg' = wg - 1
    /\ g' = [g EXCEPT ![sk] = "done"]
    /\ UNCHANGED <<retryVars, applyVars, restVars, prev, storeVars, srcs, sinks, once, pc, cycle, si, fetched, ferr, fi, out, evs,
                   res, pushLog, joined, counter, cancelled, tickPending, watch>>

\* A key of the failed batch the properties may go on to follow: its Mark
\* was made at `now` by this step's dedup loop; it is absent from the store
\* only if a later Mark of the same loop evicted it for capacity.
Watchable ==
    {[key |-> k, all |-> \A sk \in SinkSet : res[sk] = "err", at |-> now,
      evicted |-> k \notin d.items] : k \in KeysOf(evs)}

\* wg.Wait(); close(errCh); drain it; count the batch unless hadErr.
Join ==
    /\ pc = "push"
    /\ WaitDone(wg, Len(sinks))
    /\ LET hadErr == HadErr(errCh, Len(sinks))
           src    == srcs[si]
           failed == {sk \in SinkSet : res[sk] = "err"}
       IN  /\ counter' = IF hadErr THEN counter
                         ELSE [counter EXCEPT ![src] = @ + Len(evs)]
           /\ joined' = [src |-> src, n |-> Len(evs),
                         logged |-> {errCh[i].sink : i \in 1..Len(errCh)},
                         failed |-> failed, delivered |-> ~hadErr]
           /\ IF failed # {} /\ d # NilDedup
              THEN watch' \in {watch} \cup Watchable
              ELSE watch' = watch
           /\ d' = IF hadErr /\ d # NilDedup THEN OnSinkError(d, evs) ELSE d
    /\ pc' = "fetch"
    /\ si' = si + 1
    /\ evs' = <<>>
    /\ fetched' = <<>> /\ ferr' = FALSE /\ fi' = 1 /\ out' = <<>>
    /\ g' = [sk \in SinkSet |-> "idle"]
    /\ res' = [sk \in SinkSet |-> "none"]
    /\ pushLog' = [sk \in SinkSet |-> <<>>]
    /\ errCh' = <<>>
    /\ UNCHANGED <<now, op, lastMark, touchOrder, capEvicted>>
    /\ UNCHANGED <<srcs, sinks, once, cycle, wg, cancelled, tickPending, prev, retryVars, applyVars, restVars>>

\* runOnce returns; main returns (-once) or enters the ticker loop.
CycleEnd ==
    /\ pc = "fetch"
    /\ si > Len(srcs)
    /\ pc' = IF once THEN "done" ELSE "wait"
    /\ fetched' = <<>> /\ ferr' = FALSE /\ fi' = 1 /\ out' = <<>>
    /\ joined' = NoJoin
    /\ UNCHANGED <<retryVars, applyVars, restVars, prev, storeVars, srcs, sinks, once, cycle, si, evs, g, res, pushLog,
                   errCh, wg, counter, cancelled, tickPending, watch>>

\* Variant of Stop: ctx is looked at before each source as well.
StopMidCycle ==
    /\ pc \in {"wait", "fetch"}
    /\ cancelled
    /\ pc' = "done"
    /\ UNCHANGED <<retryVars, applyVars, restVars, prev, storeVars, srcs, sinks, once, cycle, si, fetched, ferr, fi, out, evs, g,
                   res, pushLog, errCh, wg, joined, counter, cancelled,
                   tickPending, watch>>

\* select: case <-ctx.Done(): return
Stop ==
    /\ pc = "wait"
    /\ cancelled
    /\ pc' = "done"
    /\ UNCHANGED <<retryVars, applyVars, restVars, prev, storeVars, srcs, sinks, once, cycle, si, fetched, ferr, fi, out, evs, g,
                   res, pushLog, errCh, wg, joined, counter, cancelled,
                   tickPending, watch>>

\* Variant of StartCycleWithin: a tick starts runOnce wherever the loop over
\* the sources is.
StartCycleOnTick(n) ==
    /\ pc \in {"wait", "fetch"}
    /\ tickPending
    /\ cycle < n
    /\ tickPending' = FALSE
    /\ cycle' = cycle + 1
    /\ si' = 1
    /\ pc' = "fetch"
    /\ UNCHANGED <<retryVars, applyVars, restVars, prev, storeVars, srcs, sinks, once, fetched, ferr, fi, out, evs, g, res,
                   pushLog, errCh, wg, joined, counter, cancelled, watch>>

\* select: case <-ticker.C: runOnce(), for a run of at most n cycles.
StartCycleWithin(n) ==
    /\ pc = "wait"
    /\ tickPending
    /\ cycle < n
    /\ tickPending' = FALSE
    /\ cycle' = cycle + 1
    /\ si' = 1
    /\ pc' = "fetch"
    /\ UNCHANGED <<retryVars, applyVars, restVars, prev, storeVars, srcs, sinks, once, fetched, ferr, fi, out, evs, g, res,
                   pushLog, errCh, wg, joined, counter, cancelled, watch>>

StartCycle == StartCycleWithin(MaxCycles)

\* The ticker (created after the first runOnce) delivers a tick into its
\* one-slot channel; a tick that finds the slot full is dropped. The tick
\* is read only by the select, so it is delivered between source steps.
TickerFire ==
    /\ ~once
    /\ pc = "wait" \/ (cycle > 1 /\ pc = "fetch")
    /\ ~tickPending
    /\ tickPending' = TRUE
    /\ UNCHANGED <<retryVars, applyVars, restVars, prev, storeVars, srcs, sinks, once, pc, cycle, si, fetched, ferr, fi, out, evs,
                   g, res, pushLog, errCh, wg, joined, counter, cancelled, watch>>

\* SIGINT or SIGTERM cancels ctx. The orchestrator reads ctx.Done() only in
\* the select, so the signal is delivered between source steps.
Cancel ==
    /\ pc \in {"fetch", "fetching", "wait"}
    /\ ~cancelled
    /\ cancelled' = TRUE
    /\ UNCHANGED <<retryVars, applyVars, restVars, prev, storeVars, srcs, sinks, once, pc, cycle, si, fetched, ferr, fi, out, evs,
                   g, res, pushLog, errCh, wg, joined, counter, tickPending, watch>>

\* src.Fetch(ctx) is called and blocks on a peer that never answers: this
\* fetch does not return by itself.
FetchHangs ==
    /\ pc = "fetch"
    /\ si <= Len(srcs)
    /\ pc' = "fetching"
    /\ UNCHANGED <<retryVars, applyVars, restVars, prev, storeVars, srcs, sinks, once, cycle, si, fetched, ferr, fi, out, evs,
                   g, res, pushLog, errCh, wg, joined, counter, cancelled, tickPending, watch>>

\* The ctx runOnce hands to src.Fetch is the ctx of signal.NotifyContext
\* itself, with no deadline of its own: it is done once a signal has come.
FetchCtxDone == cancelled

\* The blocked fetch is ended by its ctx and returns ctx's error: the
\* source is skipped.
FetchCutOff ==
    /\ pc = "fetching"
    /\ FetchCtxDone
    /\ fetched' = <<>>
    /\ ferr' = TRUE
    /\ fi' = 1
    /\ out' = <<>>
    /\ Skip
    /\ joined' = NoJoin
    /\ UNCHANGED <<retryVars, applyVars, restVars, prev, storeVars, srcs, sinks, once, cycle, counter, cancelled,
                   tickPending, watch>>

\* Time passes. Only the dedup loop reads the clock; the clock is advanced
\* before a fetch, so one source's dedup loop runs within one clock unit.
ClockTick ==
    /\ pc = "fetch"
    /\ si <= Len(srcs)
    /\ now < MaxTime
    /\ now' = now + 1
    /\ UNCHANGED <<d, op, lastMark, touchOrder, capEvicted, orchVars, retryVars, applyVars, restVars>>

\* The orchestrator while the clock stands still.
NextQuick ==
    \/ FetchStep
    \/ FilterStep
    \/ \E sk \in SinkSet : PushReturns(sk)
    \/ \E sk \in SinkSet : SendErr(sk)
    \/ Join
    \/ CycleEnd
    \/ Stop
    \/ StartCycle
    \/ TickerFire
    \/ Cancel

Next ==
    \/ FetchStep
    \/ FilterStep
    \/ \E sk \in SinkSet : PushReturns(sk)
    \/ \E sk \in SinkSet : SendErr(sk)
    \/ Join
    \/ CycleEnd
    \/ Stop
    \/ StartCycle
    \/ TickerFire
    \/ Cancel
    \/ ClockTick

Spec == Init /\ [][Next]_vars

\* Two sources; the run is shorter than one clock unit.
SpecMulti == InitMulti /\ [][NextQuick]_vars

\* One source, one sink, periodic mode, every dedup configuration; the
\* batch of each dedup loop is remembered for the next cycle.
InitRepeat ==
    /\ InitWith(OneSource, {NewDedup(maxKeys, ttl) :
                               maxKeys \in 0..MaxKeysCfg, ttl \in 0..MaxTTLCfg}, PrevNone)
    /\ sinks = <<"loki">>
    /\ ~once

SpecRepeat == InitRepeat /\ [][Next]_vars

\* Retry on its own, for every attempts, initial and max within the bounds.
InitRetry ==
    /\ attempts \in 0..MaxAttempts
    /\ initial \in 0..MaxDelay
    /\ max \in 0..MaxDelay
    /\ rd = 0 /\ ri = 0
    /\ rpc = "start"
    /\ ctxDone = FALSE /\ woke = "none"
    /\ calls = <<>> /\ waits = <<>> /\ ret = NoRet
    /\ d = NilDedup /\ now = 0 /\ op = NoOp /\ lastMark = <<>>
    /\ touchOrder = <<>> /\ capEvicted = {}
    /\ srcs = <<>> /\ sinks = <<>> /\ once = FALSE /\ pc = "off" /\ cycle = 0 /\ si = 0
    /\ fetched = <<>> /\ ferr = FALSE /\ fi = 1 /\ out = <<>> /\ evs = <<>>
    /\ g = <<>> /\ res = <<>> /\ pushLog = <<>> /\ errCh = <<>> /\ wg = 0
    /\ joined = NoJoin /\ counter = <<>> /\ cancelled = FALSE /\ tickPending = FALSE
    /\ watch = NoWatch /\ prev = PrevOff
    /\ ApplyOff
    /\ RestOff

NextRetry ==
    \/ RetryEnter
    \/ RetrySingle
    \/ RetryTop
    \/ RetryTimer
    \/ RetryCancel
    \/ RetrySelect
    \/ RetryCall

SpecRetry == InitRetry /\ [][NextRetry]_vars

\* Apply on its own. The rules cfg.Post is drawn from: keyword rules that
\* share a label key, with words in upper case and with blanks around, a
\* word found only across the end of the title, a rule of blank words;
\* regex rules on a field and on a label, one with a pattern that does not
\* compile; map rules on a label and on a field, with and without out_key.
KeywordPool ==
    {[When |-> <<"tariff">>, Labels |-> [policy |-> "trade", country |-> "DE"]],
     [When |-> <<" Steel ", "quota">>, Labels |-> [policy |-> "metal", kind |-> "goods"]],
     [When |-> <<"elq">>, Labels |-> [span |-> "yes"]],
     [When |-> <<" ">>, Labels |-> [blank |-> "yes"]]}

RegexPool ==
    {[Field |-> "title", Expr |-> "^Un", Labels |-> [kind |-> "other"]],
     [Field |-> "title", Expr |-> "(", Labels |-> [bad |-> "yes"]],
     [Field |-> "policy", Expr |-> "trade", Labels |-> [policy |-> "regex"]]}

MapPool ==
    {[Field |-> "policy", Mapping |-> [trade |-> "T", regex |-> "R"], OutKey |-> "topic"],
     [Field |-> "policy", Mapping |-> [trade |-> "T2", old |-> "O"], OutKey |-> ""],
     [Field |-> "country", Mapping |-> [DE |-> "EU"], OutKey |-> "region"]}

UpTo(pool, n) == UNION {[1..k -> pool] : k \in 0..n}

PostConfigs ==
    {[Keywords |-> kws, Regex |-> rs, Maps |-> ms] :
        kws \in UpTo(KeywordPool, MaxRules),
        rs \in UpTo(RegexPool, MaxRules),
        ms \in UpTo(MapPool, MaxRules)}

\* The events Apply is given: with and without labels, summary, country.
ApplyEvents ==
    {[ID |-> "1", Source |-> "gta", Title |-> "Tariff on Steel", Summary |-> "Quota",
      URL |-> "", Lang |-> "", Country |-> "", Labels |-> <<>>],
     [ID |-> "2", Source |-> "gta", Title |-> "Unsold steel", Summary |-> "",
      URL |-> "", Lang |-> "", Country |-> "DE", Labels |-> [policy |-> "old"]]}

InitApply ==
    /\ acfg \in PostConfigs
    /\ ain \in UpTo(ApplyEvents, MaxEvents)
    /\ apc = "boot"
    /\ ai = 0 /\ ar = 0 /\ arules = NoRules
    /\ acur = <<>> /\ aout = <<>> /\ alog = <<>> /\ afirst = <<>>
    /\ RetryOff
    /\ RestOff
    /\ d = NilDedup /\ now = 0 /\ op = NoOp /\ lastMark = <<>>
    /\ touchOrder = <<>> /\ capEvicted = {}
    /\ srcs = <<>> /\ sinks = <<>> /\ once = FALSE /\ pc = "off" /\ cycle = 0 /\ si = 0
    /\ fetched = <<>> /\ ferr = FALSE /\ fi = 1 /\ out = <<>> /\ evs = <<>>
    /\ g = <<>> /\ res = <<>> /\ pushLog = <<>> /\ errCh = <<>> /\ wg = 0
    /\ joined = NoJoin /\ counter = <<>> /\ cancelled = FALSE /\ tickPending = FALSE
    /\ watch = NoWatch /\ prev = PrevOff

NextApply ==
    \/ StartUp
    \/ ApplyEnter
    \/ KeywordStep
    \/ RegexStep
    \/ MapStep
    \/ CategoryEnd
    \/ Emit
    \/ ApplyAgain

SpecApply == InitApply /\ [][NextApply]_vars

\* Rules that name their field in another letter case, read a label that
\* may be absent, or have a pattern or a mapping that the empty string
\* would match.
FieldKeywordPool ==
    {[When |-> <<"tariff">>, Labels |-> [policy |-> "trade"]]}

FieldRegexPool ==
    {[Field |-> "Title", Expr |-> "^Un", Labels |-> [kind |-> "other"]],
     [Field |-> "summary", Expr |-> "^", Labels |-> [empty |-> "yes"]],
     [Field |-> "topic", Expr |-> "$", Labels |-> [absent |-> "yes"]],
     [Field |-> "policy", Expr |-> "^", Labels |-> [has |-> "yes"]]}

FieldMapPool ==
    {[Field |-> "Country", Mapping |-> ("" :> "none") @@ ("DE" :> "EU"), OutKey |-> "region"],
     [Field |-> "language", Mapping |-> ("" :> "unknown") @@ ("en" :> "English"), OutKey |-> ""],
     [Field |-> "policy", Mapping |-> ("" :> "none") @@ ("trade" :> "T"), OutKey |-> "topic"]}

FieldConfigs ==
    {[Keywords |-> kws, Regex |-> rs, Maps |-> ms] :
        kws \in UpTo(FieldKeywordPool, 1),
        rs \in UpTo(FieldRegexPool, MaxRules),
        ms \in UpTo(FieldMapPool, MaxRules)}

FieldEvents ==
    {[ID |-> "1", Source |-> "gta", Title |-> "Tariff on Steel", Summary |-> "",
      URL |-> "", Lang |-> "en", Country |-> "", Labels |-> <<>>],
     [ID |-> "2", Source |-> "gta", Title |-> "Unsold steel", Summary |-> "Quota",
      URL |-> "", Lang |-> "", Country |-> "DE", Labels |-> [policy |-> "old"]]}

InitFields ==
    /\ acfg \in FieldConfigs
    /\ ain \in UpTo(FieldEvents, MaxEvents)
    /\ apc = "boot"
    /\ ai = 0 /\ ar = 0 /\ arules = NoRules
    /\ acur = <<>> /\ aout = <<>> /\ alog = <<>> /\ afirst = <<>>
    /\ RetryOff
    /\ RestOff
    /\ d = NilDedup /\ now = 0 /\ op = NoOp /\ lastMark = <<>>
    /\ touchOrder = <<>> /\ capEvicted = {}
    /\ srcs = <<>> /\ sinks = <<>> /\ once = FALSE /\ pc = "off" /\ cycle = 0 /\ si = 0
    /\ fetched = <<>> /\ ferr = FALSE /\ fi = 1 /\ out = <<>> /\ evs = <<>>
    /\ g = <<>> /\ res = <<>> /\ pushLog = <<>> /\ errCh = <<>> /\ wg = 0
    /\ joined = NoJoin /\ counter = <<>> /\ cancelled = FALSE /\ tickPending = FALSE
    /\ watch = NoWatch /\ prev = PrevOff

SpecFields == InitFields /\ [][NextApply]_vars

\* Two sources whose fetches may block for ever on their peer.
NextHang ==
    \/ FetchStep
    \/ FetchHangs
    \/ FetchCutOff
    \/ FilterStep
    \/ \E sk \in SinkSet : PushReturns(sk)
    \/ \E sk \in SinkSet : SendErr(sk)
    \/ Join
    \/ CycleEnd
    \/ Stop
    \/ StartCycle
    \/ TickerFire
    \/ Cancel

SpecHang == InitMulti /\ [][NextHang]_vars

\* One step of one source, from its fetch to its join, for batches of up
\* to LongBatch events; one sink, every dedup configuration.
InitFilter ==
    /\ Init
    /\ sinks = <<"loki">>
    /\ once

NextFilter ==
    \/ FetchLong
    \/ FilterStep
    \/ \E sk \in SinkSet : PushReturns(sk)
    \/ \E sk \in SinkSet : SendErr(sk)
    \/ Join

SpecFilter == InitFilter /\ [][NextFilter]_vars

\* Two sources, one sink, periodic mode, up to LongRun cycles: a tick can
\* arrive during a cycle that a further cycle may follow.
InitTicks ==
    /\ InitMulti
    /\ sinks = <<"loki">>
    /\ ~once

NextTicks ==
    \/ FetchStep
    \/ FilterStep
    \/ \E sk \in SinkSet : PushReturns(sk)
    \/ \E sk \in SinkSet : SendErr(sk)
    \/ Join
    \/ CycleEnd
    \/ Stop
    \/ StartCycleWithin(LongRun)
    \/ TickerFire
    \/ Cancel

SpecTicks == InitTicks /\ [][NextTicks]_vars

\* ------------------------------------------------- Dedup store: properties

\* C3: after every Seen and Mark the number of stored entries (list and
\* lookup table alike) is at most the capacity the store was built with.
C3_CapacityBound ==
    /\ Len(d.ll) <= d.cap
    /\ Cardinality(d.items) <= d.cap

\* A Mark of a new key into a full store has just evicted for capacity.
C3_Witness ==
    /\ op.name = "Mark"
    /\ op.capEv # {}
    /\ Len(d.ll) = d.cap

\* C4 as stated: once marked, Seen(key) is true at every time before
\* (most recent Mark) + TTL, whatever happened to other keys in between.
C4_SeenUntilTTL ==
    (/\ op.name = "Seen"
     /\ lastMark[op.key] >= 0
     /\ now < lastMark[op.key] + d.ttl) => op.ret

\* C4 amended: the same, for a key that no Mark of another key has evicted
\* for capacity since its most recent Mark.
C4_SeenUntilTTLUnlessEvicted ==
    (/\ op.name = "Seen"
     /\ lastMark[op.key] >= 0
     /\ now < lastMark[op.key] + d.ttl
     /\ op.key \notin capEvicted) => op.ret

\* Seen hits a key some time after its Mark, another key marked in between.
C4_Witness ==
    /\ op.name = "Seen"
    /\ op.ret
    /\ lastMark[op.key] >= 0
    /\ lastMark[op.key] < now
    /\ \E k \in DedupKeys \ {op.key} : lastMark[k] > lastMark[op.key]

\* C5: a Seen query at a time >= (most recent Mark) + TTL reports not seen,
\* the instant T + TTL itself included.
C5_ExpiredNotSeen ==
    (/\ op.name = "Seen"
     /\ lastMark[op.key] >= 0
     /\ now >= lastMark[op.key] + d.ttl) => ~op.ret

\* A Seen query exactly at the expiry instant of a marked key.
C5_Witness ==
    /\ op.name = "Seen"
    /\ lastMark[op.key] >= 0
    /\ now = lastMark[op.key] + d.ttl
    /\ ~op.ret

\* What a Seen(key) step may do, stated on the store before and after.
SeenPost(key) ==
    LET live == \E i \in 1..Len(d.ll) : d.ll[i].key = key /\ d.ll[i].exp > now
        Others(s) == SelectSeq(s, LAMBDA e : e.key # key)
        Mine(s) == SelectSeq(s, LAMBDA e : e.key = key)
    IN  /\ op'.ret = live
        /\ Others(d'.ll) = Others(d.ll)
        /\ d'.cap = d.cap /\ d'.ttl = d.ttl
        /\ live => /\ Mine(d'.ll) = Mine(d.ll)
                   /\ d'.ll[1].key = key
                   /\ d'.items = d.items
        /\ ~live => /\ Mine(d'.ll) = <<>>
                    /\ d'.items = d.items \ {key}

\* C6: Seen(key) returns true iff an entry of key with expiry after now is
\* stored; it only promotes that entry on a hit or removes it when expired,
\* inserts nothing, changes no expiry and leaves every other entry alone.
C6_SeenContract ==
    [][\A key \in DedupKeys : DoSeen(key) => SeenPost(key)]_vars

\* A hit promoted an entry over one marked later, its expiry unchanged.
C6_Witness ==
    /\ op.name = "Seen"
    /\ op.ret
    /\ Len(d.ll) >= 2
    /\ d.ll[1].key = op.key
    /\ d.ll[1].exp < d.ll[2].exp

\* What a Mark(key) step that overflows the capacity must evict.
EvictPost(key) ==
    LET stored == SelectSeq(touchOrder, LAMBDA k : k \in d.items)
        n      == Len(d.ll) + 1 - d.cap
        lru    == {stored[i] : i \in (Len(stored) - n + 1)..Len(stored)}
        gone   == d.items \ d'.items
    IN  /\ op'.capEv = lru
        /\ lru \subseteq gone
        /\ \A k \in gone \ lru :
              \E i \in 1..Len(d.ll) : d.ll[i].key = k /\ d.ll[i].exp <= now
        /\ key \in d'.items
        /\ d'.ll[1].key = key

\* C8: when Mark inserts a new key into a store that then exceeds its
\* capacity, the keys removed for capacity are exactly the least recently
\* touched ones, and the key just marked stays.
C8_EvictsLeastRecentlyTouched ==
    [][\A key \in DedupKeys :
          (DoMark(key) /\ key \notin d.items /\ Len(d.ll) + 1 > d.cap)
              => EvictPost(key)]_vars

\* A capacity eviction whose victim was marked later than a survivor
\* (the survivor was touched by a Seen hit in between).
C8_Witness ==
    /\ op.name = "Mark"
    /\ op.capEv # {}
    /\ \E k \in op.capEv, k2 \in d.items \ {op.key} : lastMark[k] > lastMark[k2]

\* ------------------------------------------------ orchestrator: properties

\* The dedup loop is about to sight an event whose key is the watched one.
SightsWatched == pc = "filter" /\ Key(fetched[fi]) = watch.key

\* C1 as stated: the push phase never rolls a mark back, and an event whose
\* batch failed on every sink is dropped by the dedup loop whenever the
\* source returns it again within the TTL of its mark.
C1_FailedBatchStaysDropped ==
    [][/\ pc = "push" => d' = d
       /\ (SightsWatched /\ watch.all /\ now < watch.at + d.ttl)
             => (out' = out /\ watch.key \notin KeysOf(evs'))]_vars

\* C1 amended: the same, unless the key's entry was evicted for capacity
\* by a later Mark of another key.
C1_FailedBatchStaysDroppedUnlessEvicted ==
    [][/\ pc = "push" => d' = d
       /\ (SightsWatched /\ watch.all /\ now < watch.at + d.ttl /\ ~watch.evicted)
             => (out' = out /\ watch.key \notin KeysOf(evs'))]_vars

\* In a later cycle the dedup loop has just dropped an event whose batch
\* failed on every sink.
C1_Witness ==
    /\ cycle >= 2
    /\ fi > 1 /\ fi - 1 <= Len(fetched)
    /\ watch.all /\ ~watch.evicted
    /\ Key(fetched[fi - 1]) = watch.key
    /\ watch.key \notin KeysOf(out)

\* C2: an event whose batch met a sink failure passes the dedup loop (and
\* so is pushed again) the next time the source returns it.
C2_NextCycleRetries ==
    [][SightsWatched => out' = Append(out, fetched[fi])]_vars

\* C7: when the dedup loop sights an event whose key has an unexpired
\* entry, the entry becomes most recently used with expiry now + TTL.
C7_SightingRefreshes ==
    [][(/\ pc = "filter"
        /\ \E i \in 1..Len(d.ll) :
              d.ll[i].key = Key(fetched[fi]) /\ d.ll[i].exp > now)
          => d'.ll[1] = [key |-> Key(fetched[fi]), exp |-> now + d.ttl]]_vars

\* The step is the fan-out join of the current source.
JoinStep == pc = "push" /\ pc' # "push"

\* C9: events_pushed_total{source} grows exactly at the join of a batch
\* that every configured sink accepted, by the size of the pushed batch,
\* and only for the batch's source; it changes at no other step.
C9_CounterCountsDelivered ==
    [][\A s \in DOMAIN counter :
          counter'[s] = counter[s] +
              (IF JoinStep /\ srcs[si] = s /\ \A sk \in SinkSet : res[sk] = "ok"
               THEN Len(pushLog[sinks[1]][1]) ELSE 0)]_vars

\* Two sinks accepted a batch of two events, counted on top of an
\* earlier delivery.
C9_Witness ==
    /\ Len(sinks) = 2
    /\ joined.delivered
    /\ joined.n >= 2
    /\ counter[joined.src] > joined.n

\* C10: a source step ends without a fan-out only on a fetch error or an
\* empty filtered batch; the batch handed to the fan-out is the enriched
\* filtered batch and stays as it is while the pushes run; the join is
\* passed only when every sink's Push was invoked exactly once with that
\* batch and has returned, and it collects the error of every failing sink.
C10_FanOutJoinsAll ==
    [][/\ (pc # "push" /\ si' = si + 1) => (ferr' \/ out' = <<>>)
       /\ (pc # "push" /\ pc' = "push") => evs' = Apply(out', cfgPost)
       /\ (pc = "push" /\ pc' = "push") => evs' = evs
       /\ JoinStep =>
             /\ \A sk \in SinkSet :
                   /\ g[sk] = "done"
                   /\ pushLog[sk] = <<evs>>
             /\ joined'.logged = {sk \in SinkSet : res[sk] = "err"}]_vars

\* A join after one of two sinks failed and the other succeeded.
C10_Witness ==
    /\ Len(sinks) = 2
    /\ Cardinality(joined.failed) = 1
    /\ joined.logged = joined.failed

\* The dedup loop is going through the batch it went through in the cycle
\* before, every key of which it marked then; the TTL of those marks has
\* not elapsed and the batch has no more keys than the store's capacity.
RepeatsPrev ==
    /\ pc = "filter"
    /\ prev.on /\ prev.cycle = cycle - 1 /\ prev.fresh
    /\ fetched = prev.batch
    /\ now < prev.at + d.ttl
    /\ Cardinality(KeysOf(fetched)) <= d.cap

\* C11: with dedup enabled, a batch the source returns again in the next
\* cycle, within the TTL and the capacity, is dropped whole: every
\* iteration of the dedup loop keeps nothing, and after the last one the
\* source step ends without calling any sink.
C11_RepeatedBatchDropped ==
    [][RepeatsPrev =>
          /\ out' = <<>>
          /\ evs' = <<>>
          /\ \A sk \in SinkSet : pushLog'[sk] = <<>> /\ g'[sk] = "idle"
          /\ IF fi = Len(fetched) THEN pc' = "fetch" /\ si' = si + 1
             ELSE pc' = "filter"]_vars

\* The second cycle's dedup loop has dropped the first of the two events
\* it had kept in the first cycle.
C11_Witness ==
    /\ RepeatsPrev
    /\ cycle = 2
    /\ fi = 2
    /\ out = <<>>
    /\ Cardinality(KeysOf(fetched)) = 2

\* kept consists of events of batch, in the order of batch, each the first
\* event of batch with its key.
FirstOfEachKey(kept, batch) ==
    \E f \in [1..Len(kept) -> 1..Len(batch)] :
        /\ \A i \in 1..Len(kept) : kept[i] = batch[f[i]]
        /\ \A i, j \in 1..Len(kept) : i < j => f[i] < f[j]
        /\ \A i \in 1..Len(kept), j \in 1..Len(batch) :
              Key(batch[j]) = Key(kept[i]) => f[i] <= j

\* enriched is batch, event by event, but for the labels.
SameButLabels(enriched, batch) ==
    /\ Len(enriched) = Len(batch)
    /\ \A i \in 1..Len(batch) :
          [enriched[i] EXCEPT !.Labels = <<>>] = [batch[i] EXCEPT !.Labels = <<>>]

\* The step starts the fan-out of the current source.
FanOutStep == pc # "push" /\ pc' = "push"

C13_FetchErrorSkipsSource ==
    [][(FetchStep /\ ferr') =>
          /\ d' = d
          /\ counter' = counter
          /\ out' = <<>> /\ evs' = <<>>
          /\ \A sk \in SinkSet : pushLog'[sk] = <<>> /\ g'[sk] = "idle"
          /\ wg' = 0
          /\ pc' = "fetch" /\ si' = si + 1]_vars

\* A fetch has returned two events together with an error, dedup enabled,
\* and the step is over.
C13_Witness ==
    /\ ferr
    /\ Len(fetched) = 2
    /\ d # NilDedup
    /\ d.items = {}
    /\ pc = "fetch" /\ si = 2

\* The step ends a source's step in failure: its fetch returns an error,
\* or the join finds a push that failed.
FailureStep ==
    \/ FetchStep /\ ferr'
    \/ JoinStep /\ \E sk \in SinkSet : res[sk] = "err"

\* C14: a fetch error or a failed push leaves the orchestrator at the
\* fetch of the next source of the same cycle, which can then be taken
\* whenever there is a next source; the run ends only after the single
\* cycle of -once or on cancellation, and the ticker wait is left only
\* for the next cycle or on cancellation.
C14_FailureDoesNotStop ==
    [][/\ FailureStep =>
             /\ pc' = "fetch" /\ si' = si + 1 /\ cycle' = cycle
             /\ cancelled' = cancelled /\ once' = once
       /\ (pc = "fetch" /\ si <= Len(srcs)) => ENABLED FetchStep
       /\ (pc = "fetch" /\ si > Len(srcs)) => ENABLED CycleEnd
       /\ (pc = "wait" /\ tickPending /\ cycle < MaxCycles) => ENABLED StartCycle
       /\ (pc # "done" /\ pc' = "done") => (once \/ cancelled)
       /\ (pc = "wait" /\ pc' # "wait") =>
             \/ pc' = "fetch" /\ cycle' = cycle + 1 /\ si' = 1
             \/ pc' = "done" /\ cancelled]_vars

\* The second cycle pushes the second source's batch, after a push has
\* failed earlier in the run.
C14_Witness ==
    /\ cycle = 2
    /\ si = 2 /\ pc = "push"
    /\ watch.key # ""

\* C15: a source is fetched only when no push goroutine exists or is
\* running and nothing of an earlier fan-out is left (WaitGroup at zero,
\* error channel drained); the pushes in flight all carry the batch of the
\* one source being processed; and the source index only moves on by one,
\* at a step that leaves no push behind, or back to the first source at
\* the start of a cycle.
C15_SourcesOneAfterAnother ==
    [][/\ FetchStep =>
             /\ \A sk \in SinkSet : g[sk] = "idle" /\ pushLog[sk] = <<>>
             /\ wg = 0
             /\ errCh = <<>>
       /\ (\E sk \in SinkSet : g'[sk] \in {"running", "sending"}) =>
             /\ pc' = "push"
             /\ \A i \in 1..Len(errCh') : errCh'[i].src = srcs[si']
             /\ \A sk \in SinkSet : pushLog'[sk] \in {<<>>, <<evs'>>}
       /\ si' # si =>
             /\ si' = si + 1 \/ (si' = 1 /\ si = Len(srcs) + 1)
             /\ wg = 0
             /\ \A sk \in SinkSet : g[sk] \in {"idle", "done"}]_vars

\* The second source's pushes are in flight after the first source's batch
\* went through both sinks.
C15_Witness ==
    /\ si = 2 /\ pc = "push"
    /\ Len(sinks) = 2
    /\ \A sk \in SinkSet : g[sk] = "running"
    /\ counter[srcs[1]] > 0

\* The step ends the fetch and dedup part of a source's step without an
\* error and with nothing left of the batch.
EmptyBatchStep ==
    /\ FetchStep \/ FilterStep
    /\ ~ferr'
    /\ pc' # "filter"
    /\ out' = <<>>

\* C16: when nothing is left after the dedup block, whether the source
\* returned nothing or every event was dropped, the step goes on to the
\* next source without a goroutine or a Push, the counter as it was.
C16_EmptyBatchSkipsSource ==
    [][EmptyBatchStep =>
          /\ pc' = "fetch" /\ si' = si + 1
          /\ counter' = counter
          /\ evs' = <<>>
          /\ wg' = 0
          /\ \A sk \in SinkSet : pushLog'[sk] = <<>> /\ g'[sk] = "idle"]_vars

\* The dedup loop has dropped both events of a fetched batch and the step
\* is over.
C16_Witness ==
    /\ ~ferr
    /\ Len(fetched) = 2
    /\ fi = 3
    /\ out = <<>>
    /\ pc = "fetch" /\ si = 2

\* ------------------------------------------------------- Retry: properties

\* C17: a ctx cancelled while the select of a wait is blocked ends that
\* select; Retry then returns ctx.Err() with no further fn() invocation,
\* and no invocation follows the return.
C17_CancelDuringWaitReturns ==
    [][/\ (rpc = "wait" /\ woke = "none" /\ ~ctxDone /\ ctxDone') => woke' = "ctx"
       /\ (rpc = "wait" /\ woke = "ctx") =>
             (rpc' = "done" /\ ret' = RetCtx /\ calls' = calls)
       /\ rpc = "done" => (calls' = calls /\ ret' = ret /\ rpc' = "done")]_vars

\* Retry has returned ctx.Err() from its second wait, after two failed
\* attempts of three.
C17_Witness ==
    /\ rpc = "done"
    /\ woke = "ctx"
    /\ ret = RetCtx
    /\ attempts = 3 /\ Len(calls) = 2 /\ Len(waits) = 2

\* Every fn() invocation so far has failed.
AllFailed == \A k \in 1..Len(calls) : calls[k] = "err"

\* C18: with attempts >= 2, fn() is invoked at most attempts times and
\* never after a success; a success is returned as nil at once; when all
\* attempts invocations have failed and ctx is not cancelled, the error of
\* the last one is returned, after attempts - 1 waits.
C18_BoundedAttempts ==
    attempts >= 2 =>
        /\ Len(calls) <= attempts
        /\ \A k \in 1..(Len(calls) - 1) : calls[k] = "err"
        /\ Len(waits) <= Len(calls)
        /\ (calls # <<>> /\ calls[Len(calls)] = "ok") =>
              (rpc = "done" /\ ret = RetNil)
        /\ (rpc = "done" /\ ret = RetNil) =>
              (calls # <<>> /\ calls[Len(calls)] = "ok")
        /\ (rpc = "done" /\ AllFailed /\ ~ctxDone) =>
              /\ Len(calls) = attempts
              /\ ret = RetErr(attempts)
              /\ Len(waits) = attempts - 1

\* Three attempts have failed without cancellation and Retry has returned.
C18_Witness ==
    /\ rpc = "done"
    /\ attempts = 3
    /\ ~ctxDone
    /\ AllFailed
    /\ ret = RetErr(3)

\* C19: with every attempt failing and no cancellation, the first wait is
\* the initial delay and each later wait is min(2 * previous wait, max).
C19_WaitsStartAtInitial ==
    (attempts >= 2 /\ AllFailed /\ ~ctxDone) =>
        \A k \in 1..Len(waits) :
            waits[k] = IF k = 1 THEN initial
                       ELSE IF 2 * waits[k - 1] < max THEN 2 * waits[k - 1] ELSE max

\* C20: no wait is longer than max, whatever initial is.
C20_WaitsWithinMax ==
    \A k \in 1..Len(waits) : waits[k] <= max

\* C21: with attempts <= 1, Retry performs no wait and invokes fn() at
\* most once; once it has returned, fn() was invoked exactly once and the
\* value returned is that invocation's result (nil for a success, its own
\* error for a failure), whether or not ctx was cancelled meanwhile.
C21_SingleAttempt ==
    attempts <= 1 =>
        /\ waits = <<>>
        /\ Len(calls) <= 1
        /\ rpc = "done" =>
              /\ Len(calls) = 1
              /\ ret = IF calls[1] = "ok" THEN RetNil ELSE RetErr(1)

\* Retry was called with attempts = 0, ctx was cancelled, the single fn()
\* failed and Retry has returned.
C21_Witness ==
    /\ attempts = 0
    /\ rpc = "done"
    /\ ctxDone
    /\ calls = <<"err">>

\* ------------------------------------------- cancellation: properties

\* C29: in periodic mode, once ctx is cancelled a running cycle goes on as
\* it would have: the fetch of the current source stays enabled, si moves
\* by one source at a time and only past a source that was fetched, the
\* cycle ends only after the last source, and the orchestrator returns
\* only from the select of the tick wait, where returning is enabled.
C29_CancelWaitsForCycleEnd ==
    [][(~once /\ cancelled) =>
          /\ (pc = "fetch" /\ si <= Len(srcs)) =>
                (ENABLED FetchStep /\ (pc' # pc => FetchStep))
          /\ si' # si =>
                \/ si' = si + 1 /\ si <= Len(srcs) /\ pc \in {"fetch", "filter", "push"}
                \/ si' = 1 /\ pc = "wait"
          /\ (pc # "wait" /\ pc' = "wait") => (pc = "fetch" /\ si > Len(srcs))
          /\ pc' = "done" => pc = "wait"
          /\ pc = "wait" => ENABLED Stop]_vars

\* The first cycle was cancelled before its second source was fetched;
\* that source has been fetched all the same and its batch is being pushed.
C29_Witness ==
    /\ ~once
    /\ cancelled
    /\ cycle = 1
    /\ si = 2
    /\ pc = "push"
    /\ evs # <<>>

\* C30: a fetch that does not return by itself can be cut off by the ctx
\* it was called with at any time, so that the cycle can go on to the
\* next source.
C30_HungFetchIsCutOff ==
    pc = "fetching" => ENABLED FetchCutOff

\* ------------------------------------------------------ Apply: properties

\* The rules that matched ev and wrote label key k, by position in alog.
WritersOf(k) ==
    {j \in 1..Len(alog) : alog[j].hit /\ k \in DOMAIN alog[j].writes}

WrittenKeys == {k \in DOMAIN acur.Labels : WritersOf(k) # {}}

Latest(S) == CHOOSE j \in S : \A h \in S : h <= j

\* C22: when the rule loops of an event are over, every kept keyword rule
\* was evaluated first, in configuration order, then every kept regex
\* rule, then every kept map rule; and each label key that matching rules
\* wrote holds the value written by the latest of them in this order.
C22_LatestRuleWins ==
    apc = "emit" =>
        LET nk == Len(arules.kw)
            nr == Len(arules.re)
            nm == Len(arules.map)
        IN  /\ Len(alog) = nk + nr + nm
            /\ \A j \in 1..Len(alog) :
                  IF j <= nk THEN alog[j].cat = "kw" /\ alog[j].idx = j
                  ELSE IF j <= nk + nr THEN alog[j].cat = "re" /\ alog[j].idx = j - nk
                  ELSE alog[j].cat = "map" /\ alog[j].idx = j - nk - nr
            /\ \A j \in 1..Len(alog) :
                  alog[j].hit => DOMAIN alog[j].writes \subseteq DOMAIN acur.Labels
            /\ \A k \in WrittenKeys :
                  acur.Labels[k] = alog[Latest(WritersOf(k))].writes[k]

\* Two keyword rules and then a regex rule have matched the event and
\* written the same label key.
C22_Witness ==
    /\ apc = "emit"
    /\ \E k \in WrittenKeys : \E j1, j2, j3 \in WritersOf(k) :
          /\ j1 < j2 /\ j2 < j3
          /\ alog[j1].cat = "kw" /\ alog[j2].cat = "kw" /\ alog[j3].cat = "re"

\* The words of a configured keyword rule that are not blank.
NonBlankWords(when) == SelectSeq(when, LAMBDA w : TrimSpace(w) # "")

\* The configured keyword rules that have a word that is not blank.
WordedRules(kws) == SelectSeq(kws, LAMBDA kr : NonBlankWords(kr.When) # <<>>)

\* A keyword rule is being evaluated on ev in this step.
KeywordEval == apc = "kw" /\ alog' # alog

\* Every word of kr occurs in the lower-cased title followed by the
\* lower-cased summary.
InConcat(e, kr) ==
    \A i \in 1..Len(kr.words) : Contains(ToLower(e.Title \o e.Summary), kr.words[i])

\* Every word of kr occurs in the lower-cased title or in the lower-cased
\* summary.
InTitleOrSummary(e, kr) ==
    \A i \in 1..Len(kr.words) :
        Contains(ToLower(e.Title), kr.words[i]) \/ Contains(ToLower(e.Summary), kr.words[i])

\* C23, as claimed: a keyword rule writes its labels iff every one of its
\* words occurs, case-insensitively, in the concatenation of title and
\* summary; otherwise it leaves the event as it is.
C23_KeywordMatchesConcat ==
    [][KeywordEval =>
          LET kr == arules.kw[ar]
          IN  IF InConcat(acur, kr)
              THEN \A k \in DOMAIN kr.labels :
                      k \in DOMAIN acur'.Labels /\ acur'.Labels[k] = kr.labels[k]
              ELSE acur' = acur]_vars

\* C23, amended: the rules evaluated are the configured rules that have a
\* non-blank word, their words trimmed and lower-cased; such a rule writes
\* its labels iff every one of its words occurs in the lower-cased title or
\* in the lower-cased summary, and otherwise leaves the event as it is.
C23_KeywordMatchesTitleOrSummary ==
    [][/\ (apc = "ready" /\ apc' = "kw") =>
             LET kept == WordedRules(acfg.Keywords)
             IN  /\ Len(arules'.kw) = Len(kept)
                 /\ \A j \in 1..Len(kept) :
                       LET ws == NonBlankWords(kept[j].When)
                       IN  /\ arules'.kw[j].labels = kept[j].Labels
                           /\ Len(arules'.kw[j].words) = Len(ws)
                           /\ \A i \in 1..Len(ws) :
                                 arules'.kw[j].words[i] = ToLower(TrimSpace(ws[i]))
       /\ KeywordEval =>
             LET kr == arules.kw[ar]
             IN  IF InTitleOrSummary(acur, kr)
                 THEN \A k \in DOMAIN kr.labels :
                         k \in DOMAIN acur'.Labels /\ acur'.Labels[k] = kr.labels[k]
                 ELSE acur' = acur]_vars

\* The second event of a batch has gone through a two-word keyword rule of
\* which it holds one word only, and kept its labels; the first event,
\* with one word in the title and the other in the summary, got the
\* rule's labels.
C23_Witness ==
    /\ apc = "emit"
    /\ ai = 2
    /\ acur.Labels = ain[2].Labels
    /\ \E j \in 1..Len(alog) :
          /\ alog[j].cat = "kw" /\ ~alog[j].hit
          /\ Len(arules.kw[alog[j].idx].words) = 2
          /\ \E i \in 1..2 : Contains(ToLower(acur.Title), arules.kw[alog[j].idx].words[i])
          /\ \A k \in DOMAIN alog[j].writes :
                k \in DOMAIN aout[1].Labels /\ aout[1].Labels[k] = alog[j].writes[k]
          /\ ~Contains(ToLower(ain[1].Title), arules.kw[alog[j].idx].words[2])

\* C24: with a pattern in cfg.Post.Regex that does not compile, the
\* program does not get past its construction: no Apply call is ever
\* reached, so no event is enriched with the pattern left out.
C24_InvalidRegexFailsStartUp ==
    NewFails(acfg) => apc = "boot"

\* cfg holds no rule at all.
NoRulesConfigured == acfg.Keywords = <<>> /\ acfg.Regex = <<>> /\ acfg.Maps = <<>>

\* C25: what Apply returns has the length of its input; its i-th event is
\* the i-th input event in every field but Labels, and has every label key
\* the input event had; with no rule configured the labels are the input's.
C25_ApplyKeepsEvents ==
    apc = "done" =>
        /\ Len(aout) = Len(ain)
        /\ \A i \in 1..Len(ain) :
              /\ [aout[i] EXCEPT !.Labels = ain[i].Labels] = ain[i]
              /\ DOMAIN ain[i].Labels \subseteq DOMAIN aout[i].Labels
              /\ NoRulesConfigured => aout[i].Labels = ain[i].Labels

\* Apply has returned two events; the second came with a label whose value
\* a rule has replaced, and got a new key besides.
C25_Witness ==
    /\ apc = "done"
    /\ Len(aout) = 2
    /\ DOMAIN ain[2].Labels # {}
    /\ \E k \in DOMAIN ain[2].Labels : aout[2].Labels[k] # ain[2].Labels[k]
    /\ DOMAIN aout[2].Labels # DOMAIN ain[2].Labels

\* The names getField resolves to a field of the event.
FieldNames == {"title", "summary", "url", "lang", "language", "country"}

\* A map rule is being evaluated on ev in this step.
MapEval == apc = "map" /\ alog' # alog

\* The map rule under evaluation acts on the value v: it writes the value
\* mapped from v under its output key, or leaves ev alone when v is empty
\* or has no mapping.
MapActsOn(v) ==
    LET mr == arules.map[ar]
    IN  IF v # "" /\ v \in DOMAIN mr.mapping
        THEN /\ mr.outKey \in DOMAIN acur'.Labels
             /\ acur'.Labels[mr.outKey] = mr.mapping[v]
        ELSE acur' = acur

\* C26, as claimed: a map rule whose field name is a label key of ev acts
\* on the current value of that label.
C26_MapReadsLabel ==
    [][(MapEval /\ arules.map[ar].field \in DOMAIN acur.Labels) =>
          MapActsOn(acur.Labels[arules.map[ar].field])]_vars

\* C26, amended: a map rule whose field name is a label key of ev and is
\* not, in any letter case, one of the names of the event's own fields acts
\* on the current value of that label.
C26_MapReadsLabelUnlessField ==
    [][(/\ MapEval
        /\ arules.map[ar].field \in DOMAIN acur.Labels
        /\ ToLower(arules.map[ar].field) \notin FieldNames) =>
          MapActsOn(acur.Labels[arules.map[ar].field])]_vars

\* An event that came without labels got a label from a keyword rule and,
\* in the same pass, a map rule on that label has written its mapped value.
C26_Witness ==
    /\ apc = "emit"
    /\ ain[ai].Labels = <<>>
    /\ \E j, h \in 1..Len(alog) :
          /\ alog[j].cat = "kw" /\ alog[j].hit
          /\ alog[h].cat = "map" /\ alog[h].hit
          /\ arules.map[alog[h].idx].field \in DOMAIN alog[j].writes
          /\ \A m \in 1..Len(alog) : alog[m].cat = "re" => ~alog[m].hit
          /\ alog[h].writes[arules.map[alog[h].idx].outKey] =
                arules.map[alog[h].idx].mapping[alog[j].writes[arules.map[alog[h].idx].field]]

\* The configured map rules that Apply keeps, in configuration order.
KeptMaps == SelectSeq(acfg.Maps, MapKept)

\* C27: a map rule that matches writes the mapped value under its out_key,
\* or under the name of the field it read when out_key is empty, and a map
\* rule never touches any other label key.
C27_MapOutputKey ==
    [][MapEval =>
          LET cm  == KeptMaps[ar]
              key == IF cm.OutKey = "" THEN cm.Field ELSE cm.OutKey
              val == GetField(acur, cm.Field)
          IN  /\ (val # "" /\ val \in DOMAIN cm.Mapping) =>
                    /\ key \in DOMAIN acur'.Labels
                    /\ acur'.Labels[key] = cm.Mapping[val]
              /\ \A k \in DOMAIN acur'.Labels \ {key} :
                    k \in DOMAIN acur.Labels /\ acur'.Labels[k] = acur.Labels[k]
              /\ DOMAIN acur.Labels \subseteq DOMAIN acur'.Labels]_vars

\* On one event a map rule with an out_key and a map rule without one have
\* both matched; the first wrote a key other than its field, the second
\* replaced the value of the label it had read.
C27_Witness ==
    /\ apc = "emit"
    /\ \E j, h \in 1..Len(alog) :
          /\ alog[j].cat = "map" /\ alog[j].hit
          /\ alog[h].cat = "map" /\ alog[h].hit
          /\ KeptMaps[alog[j].idx].OutKey # ""
          /\ KeptMaps[alog[j].idx].OutKey # KeptMaps[alog[j].idx].Field
          /\ KeptMaps[alog[h].idx].OutKey = ""
          /\ KeptMaps[alog[h].idx].Field \in DOMAIN alog[h].writes

\* C28: a second Apply of the same events with the same cfg returns events
\* with the labels the first one returned, whatever order the ranges over
\* the rules' label maps took in either call.
C28_ApplyDeterministic ==
    (apc = "done" /\ afirst # <<>>) => aout = afirst[1]

\* Apply has returned for the second time, and in both calls a rule with
\* two labels has matched the first event.
C28_Witness ==
    /\ apc = "done"
    /\ afirst # <<>>
    /\ Len(aout) >= 1
    /\ \E j \in 1..Len(arules.kw) :
          /\ Cardinality(DOMAIN arules.kw[j].labels) = 2
          /\ KeywordMatches(ain[1], arules.kw[j])

\* The step machine and the function Apply agree on what is returned.
ApplyStepsAgree == apc = "done" => aout = Apply(ain, acfg)

\* ----------------------------------------------- Dedup: further properties

\* C32: when a Mark call returns, whether it inserted or refreshed, the
\* entry at the back of the recency list, if any, is unexpired.
C32_MarkSweepsTail ==
    op.name = "Mark" => (d.ll = <<>> \/ Before(now, d.ll[Len(d.ll)].exp))

\* The dedup loop is at an event whose key is stored with an expiry that
\* has been reached: marked at T = exp - ttl, returned at now >= T + ttl.
C33_ReturnedAfterTTL ==
    /\ pc = "filter"
    /\ Key(fetched[fi]) \in d.items
    /\ ~Before(now, d.ll[ElemOf(d, Key(fetched[fi]))].exp)

\* C33: with dedup enabled, an event whose key was last marked at T and
\* that the source returns again at a time >= T + TTL passes the filter,
\* is marked again (a fresh entry at the front, expiring at now + TTL) and
\* is handed to the fan-out with the rest of the kept events when the loop
\* ends.
C33_ReEmittedAfterTTL ==
    [][/\ C33_ReturnedAfterTTL =>
            /\ out' = Append(out, fetched[fi])
            /\ d'.ll # <<>>
            /\ d'.ll[1] = [key |-> Key(fetched[fi]), exp |-> now + d.ttl]
            /\ Key(fetched[fi]) \in d'.items
       /\ (pc = "filter" /\ fi = Len(fetched) /\ out' # <<>>) =>
            /\ pc' = "push"
            /\ KeysOf(evs') = KeysOf(out')
            /\ \A i \in 1..Len(sinks) : g'[sinks[i]] = "running"]_vars

\* Second cycle, the TTL of the first cycle's marks has elapsed: the first
\* event of the same batch has passed the filter again and is marked anew.
C33_Witness ==
    /\ pc = "filter"
    /\ cycle = 2
    /\ fi = 2
    /\ prev.on /\ prev.cycle = 1 /\ prev.fresh
    /\ fetched = prev.batch
    /\ now >= prev.at + d.ttl
    /\ out = <<fetched[1]>>
    /\ d.ll[1] = [key |-> Key(fetched[1]), exp |-> now + d.ttl]

\* ------------------------------------------- Orchestrator: further properties

\* C34: once ctx is cancelled and the orchestrator is at the select of the
\* tick wait, it returns without starting another cycle, even when a tick
\* is pending at the same moment: no step taken from there starts a cycle.
C34_CancelledWaitStartsNoCycle ==
    [][(pc = "wait" /\ cancelled) => (cycle' = cycle /\ pc' \in {"wait", "done"})]_vars

\* C39: at most one cycle is in progress at any time: a cycle starts only
\* from the tick wait, after the previous cycle went past its last source
\* with every sink goroutine of it ended, and it takes the pending tick;
\* a tick that arrives while a cycle is in progress starts nothing.
C39_OneCycleAtATime ==
    [][cycle' # cycle =>
          /\ cycle' = cycle + 1
          /\ pc = "wait"
          /\ si > Len(srcs)
          /\ wg = 0
          /\ \A sk \in SinkSet : g[sk] \notin {"running", "sending"}
          /\ tickPending /\ ~tickPending'
          /\ pc' = "fetch" /\ si' = 1]_vars

\* A tick has arrived while the second cycle is pushing a batch, with a
\* third cycle still to come: the cycle in progress goes on.
C39_Witness ==
    /\ ~once
    /\ cycle = 2
    /\ cycle < LongRun
    /\ pc = "push"
    /\ tickPending
    /\ \E sk \in SinkSet : g[sk] = "running"

\* C40: the fan-out join never deadlocks: a sink goroutine that has an
\* error to report can always send it (the channel has room for one error
\* per sink), and once every goroutine has ended wg.Wait() returns and the
\* orchestrator proceeds, whatever sinks failed.
C40_JoinNeverBlocks ==
    pc = "push" =>
        /\ \A sk \in SinkSet : g[sk] = "sending" => ENABLED SendErr(sk)
        /\ \A sk \in SinkSet : g[sk] = "running" => ENABLED PushReturns(sk)
        /\ (\A sk \in SinkSet : g[sk] = "done") => ENABLED Join
        /\ Len(errCh) <= Len(sinks)

\* Both sinks failed: the first error is in the channel and the second
\* goroutine is about to send its own.
C40_Witness ==
    /\ pc = "push"
    /\ Len(sinks) = 2
    /\ \A sk \in SinkSet : res[sk] = "err"
    /\ Len(errCh) = 1
    /\ \E sk \in SinkSet : g[sk] = "sending"

\* ---------------------------------------------- Apply: the field lookup

\* The value of name as the claim gives it: the six names as written read
\* the event's field, any other name the label of that name, "" if absent.
ReadAsWritten(e, name) ==
    CASE name = "title"   -> e.Title
      [] name = "summary" -> e.Summary
      [] name = "url"     -> e.URL
      [] name \in {"lang", "language"} -> e.Lang
      [] name = "country" -> e.Country
      [] OTHER -> IF name \in DOMAIN e.Labels THEN e.Labels[name] ELSE ""

\* The same, the six names recognised in any letter case.
ReadAnyCase(e, name) ==
    IF ToLower(name) \in FieldNames THEN ReadAsWritten(e, ToLower(name))
    ELSE IF name \in DOMAIN e.Labels THEN e.Labels[name] ELSE ""

\* A regex rule is being evaluated on ev in this step.
RegexEval == apc = "re" /\ alog' # alog

\* The regex rule under evaluation acts on the value v: it writes its
\* labels when v is not empty and matches, and leaves ev alone otherwise.
RegexActsOn(v) ==
    LET rr == arules.re[ar]
    IN  IF v # "" /\ MatchString(rr.Expr, v)
        THEN \A k \in DOMAIN rr.Labels :
                k \in DOMAIN acur'.Labels /\ acur'.Labels[k] = rr.Labels[k]
        ELSE acur' = acur

\* C35, as claimed: a regex or map rule acts on the event field when its
\* field name is title, summary, url, lang, language or country, and on
\* the label of that name for any other name; on an empty value (an absent
\* label included) it is skipped and writes nothing.
C35_FieldLookup ==
    [][/\ RegexEval => RegexActsOn(ReadAsWritten(acur, arules.re[ar].Field))
       /\ MapEval => MapActsOn(ReadAsWritten(acur, arules.map[ar].field))]_vars

\* C35, amended: the six field names are recognised in any letter case.
C35_FieldLookupAnyCase ==
    [][/\ RegexEval => RegexActsOn(ReadAnyCase(acur, arules.re[ar].Field))
       /\ MapEval => MapActsOn(ReadAnyCase(acur, arules.map[ar].field))]_vars

\* An event has gone through a regex rule whose pattern matches the empty
\* string on an empty value, and through a map rule that maps the empty
\* string on an empty field: both were skipped and the event is unchanged.
C35_Witness ==
    /\ apc = "emit"
    /\ acur = ain[ai]
    /\ \E j, h \in 1..Len(alog) :
          /\ alog[j].cat = "re" /\ ~alog[j].hit
          /\ MatchString(arules.re[alog[j].idx].Expr, "")
          /\ GetField(ain[ai], arules.re[alog[j].idx].Field) = ""
          /\ alog[h].cat = "map" /\ ~alog[h].hit
          /\ "" \in DOMAIN arules.map[alog[h].idx].mapping
          /\ GetField(ain[ai], arules.map[alog[h].idx].field) = ""

\* ------------------------------------------ Dedup: calls from goroutines

Threads == 1..NumThreads

\* A goroutine that is not calling the store; d0 is the store as the
\* running call found it when it got the mutex.
IdleThread == [pc |-> "idle", call |-> "none", key |-> "", ret |-> FALSE, d0 |-> NilDedup]

\* d.ll.Remove(el) for the element el of key; no effect once el is gone.
RemoveKey(ll, key) == SelectSeq(ll, LAMBDA en : en.key # key)

\* Variant of MuFree: Lock never waits.
MuFreeAlways(m) == TRUE

\* d.mu.Lock() goes through when no goroutine holds the mutex.
MuFree(m) == m = 0

\* What the rest of the program does while the store is called.
LockAlone ==
    UNCHANGED <<op, lastMark, touchOrder, capEvicted, orchVars, retryVars, applyVars,
                metricVars, gtaVars, cdVars>>

\* A goroutine calls d.Seen(key) or d.Mark(key).
Call(t) ==
    /\ th[t].pc = "idle"
    /\ \E c \in {"Seen", "Mark"}, key \in DedupKeys :
          th' = [th EXCEPT ![t] = [IdleThread EXCEPT !.pc = "lock", !.call = c, !.key = key]]
    /\ UNCHANGED <<d, now, mu>>
    /\ LockAlone

\* d.mu.Lock()
Lock(t) ==
    /\ th[t].pc = "lock"
    /\ MuFree(mu)
    /\ mu' = t
    /\ th' = [th EXCEPT ![t].pc = IF th[t].call = "Seen" THEN "s_look" ELSE "m_look",
                        ![t].d0 = d]
    /\ UNCHANGED <<d, now>>
    /\ LockAlone

\* Seen: if el, ok := d.items[key]; ok { if time.Now().Before(en.exp) {
\* MoveToFront; return true } ... } return false
SeenLook(t) ==
    /\ th[t].pc = "s_look"
    /\ LET key == th[t].key
       IN  IF key \in d.items /\ \E i \in 1..Len(d.ll) : d.ll[i].key = key
           THEN IF Before(now, d.ll[ElemOf(d, key)].exp)
                THEN /\ d' = [d EXCEPT !.ll = MoveToFront(d.ll, ElemOf(d, key))]
                     /\ th' = [th EXCEPT ![t].pc = "unlock", ![t].ret = TRUE]
                ELSE /\ d' = d
                     /\ th' = [th EXCEPT ![t].pc = "s_remove"]
           ELSE /\ d' = d
                /\ th' = [th EXCEPT ![t].pc = "unlock", ![t].ret = FALSE]
    /\ UNCHANGED <<now, mu>>
    /\ LockAlone

\* Seen, expired: d.ll.Remove(el)
SeenRemove(t) ==
    /\ th[t].pc = "s_remove"
    /\ d' = [d EXCEPT !.ll = RemoveKey(d.ll, th[t].key)]
    /\ th' = [th EXCEPT ![t].pc = "s_delete"]
    /\ UNCHANGED <<now, mu>>
    /\ LockAlone

\* Seen, expired: delete(d.items, key); return false
SeenDelete(t) ==
    /\ th[t].pc = "s_delete"
    /\ d' = [d EXCEPT !.items = d.items \ {th[t].key}]
    /\ th' = [th EXCEPT ![t].pc = "unlock", ![t].ret = FALSE]
    /\ UNCHANGED <<now, mu>>
    /\ LockAlone

\* Mark: if el, ok := d.items[key]; ok { en.exp = ...; MoveToFront; return }
MarkLook(t) ==
    /\ th[t].pc = "m_look"
    /\ LET key == th[t].key
       IN  IF key \in d.items /\ \E i \in 1..Len(d.ll) : d.ll[i].key = key
           THEN /\ d' = MarkRefresh(d, key, now)
                /\ th' = [th EXCEPT ![t].pc = "unlock"]
           ELSE /\ d' = d
                /\ th' = [th EXCEPT ![t].pc = "m_push"]
    /\ UNCHANGED <<now, mu>>
    /\ LockAlone

\* Mark: el := d.ll.PushFront(entry{key, now + ttl})
MarkPush(t) ==
    /\ th[t].pc = "m_push"
    /\ d' = [d EXCEPT !.ll = <<[key |-> th[t].key, exp |-> now + d.ttl]>> \o d.ll]
    /\ th' = [th EXCEPT ![t].pc = "m_index"]
    /\ UNCHANGED <<now, mu>>
    /\ LockAlone

\* Mark: d.items[key] = el
MarkIndex(t) ==
    /\ th[t].pc = "m_index"
    /\ d' = [d EXCEPT !.items = d.items \cup {th[t].key}]
    /\ th' = [th EXCEPT ![t].pc = "m_evict"]
    /\ UNCHANGED <<now, mu>>
    /\ LockAlone

\* Mark: one iteration of for d.ll.Len() > d.cap { remove Back }
MarkEvict(t) ==
    /\ th[t].pc = "m_evict"
    /\ IF Len(d.ll) > d.cap
       THEN /\ d' = [d EXCEPT !.ll = RemoveAt(d.ll, Len(d.ll)),
                              !.items = d.items \ {d.ll[Len(d.ll)].key}]
            /\ th' = th
       ELSE /\ d' = d
            /\ th' = [th EXCEPT ![t].pc = "m_sweep"]
    /\ UNCHANGED <<now, mu>>
    /\ LockAlone

\* Mark: one iteration of the loop that removes the expired tail
MarkSweep(t) ==
    /\ th[t].pc = "m_sweep"
    /\ IF d.ll = <<>> \/ Before(now, d.ll[Len(d.ll)].exp)
       THEN /\ d' = d
            /\ th' = [th EXCEPT ![t].pc = "unlock"]
       ELSE /\ d' = [d EXCEPT !.ll = RemoveAt(d.ll, Len(d.ll)),
                              !.items = d.items \ {d.ll[Len(d.ll)].key}]
            /\ th' = th
    /\ UNCHANGED <<now, mu>>
    /\ LockAlone

\* defer d.mu.Unlock(): the call returns.
Unlock(t) ==
    /\ th[t].pc = "unlock"
    /\ mu' = 0
    /\ th' = [th EXCEPT ![t] = IdleThread]
    /\ UNCHANGED <<d, now>>
    /\ LockAlone

\* Time passes between calls; the body of one call runs within one clock
\* unit.
TickLocked ==
    /\ mu = 0
    /\ now < MaxTime
    /\ now' = now + 1
    /\ UNCHANGED <<d, mu, th>>
    /\ LockAlone

InitLocked ==
    /\ \E maxKeys \in 0..MaxKeysCfg, ttl \in 0..MaxTTLCfg :
          d = NewDedup(maxKeys, ttl)
    /\ now = 0
    /\ op = NoOp
    /\ lastMark = <<>>
    /\ touchOrder = <<>>
    /\ capEvicted = {}
    /\ srcs = <<>> /\ sinks = <<>> /\ once = FALSE /\ pc = "off" /\ cycle = 0 /\ si = 0
    /\ fetched = <<>> /\ ferr = FALSE /\ fi = 1 /\ out = <<>> /\ evs = <<>>
    /\ g = <<>> /\ res = <<>> /\ pushLog = <<>> /\ errCh = <<>> /\ wg = 0
    /\ joined = NoJoin /\ counter = <<>> /\ cancelled = FALSE /\ tickPending = FALSE
    /\ watch = NoWatch /\ prev = PrevOff
    /\ RetryOff
    /\ ApplyOff
    /\ mu = 0
    /\ th = [t \in Threads |-> IdleThread]
    /\ MetricsOff
    /\ GtaOff
    /\ CdOff

NextLocked ==
    \/ \E t \in Threads : Call(t)
    \/ \E t \in Threads : Lock(t)
    \/ \E t \in Threads : SeenLook(t)
    \/ \E t \in Threads : SeenRemove(t)
    \/ \E t \in Threads : SeenDelete(t)
    \/ \E t \in Threads : MarkLook(t)
    \/ \E t \in Threads : MarkPush(t)
    \/ \E t \in Threads : MarkIndex(t)
    \/ \E t \in Threads : MarkEvict(t)
    \/ \E t \in Threads : MarkSweep(t)
    \/ \E t \in Threads : Unlock(t)
    \/ TickLocked

SpecLocked == InitLocked /\ [][NextLocked]_vars

\* The goroutines inside a call's body, between Lock and Unlock.
InBody == {t \in Threads : th[t].pc \notin {"idle", "lock"}}

\* items and the recency list hold the same keys, each once in the list.
SameKeysOnce(dd) ==
    /\ dd.items = {dd.ll[i].key : i \in 1..Len(dd.ll)}
    /\ \A i, j \in 1..Len(dd.ll) : dd.ll[i].key = dd.ll[j].key => i = j

\* C36: under any interleaving of Seen and Mark calls from several
\* goroutines, at most one call is inside its body at a time; a call that
\* is about to return has changed the store, from the state it found, as
\* a Seen or a Mark run alone does, and returns what that Seen returns;
\* and whenever no call is inside its body, items and the recency list
\* hold exactly the same keys, each exactly once.
C36_CallsAtomicAndConsistent ==
    /\ Cardinality(InBody) <= 1
    /\ \A t \in InBody : mu = t
    /\ \A t \in Threads : th[t].pc = "unlock" =>
          IF th[t].call = "Seen"
          THEN /\ d = Seen(th[t].d0, th[t].key, now).d
               /\ th[t].ret = Seen(th[t].d0, th[t].key, now).ret
          ELSE d = Mark(th[t].d0, th[t].key, now)
    /\ InBody = {} => SameKeysOnce(d)

\* A Mark that had to evict is about to return while the other goroutine
\* waits for the mutex with a call on the same key.
C36_Witness ==
    /\ th[1].pc = "unlock" /\ th[1].call = "Mark"
    /\ th[2].pc = "lock" /\ th[2].key = th[1].key
    /\ Len(th[1].d0.ll) = d.cap
    /\ th[1].key \notin th[1].d0.items
    /\ Len(d.ll) = d.cap

\* ------------------------------------------------------ metrics registry

\* The characters of the model's metric names, label keys and snapshot
\* lines, in byte order.
Ascii == " ,0123456789=_abcdefghijklmnopqrstuvwxyz{}"

Code(c) == CHOOSE i \in 1..Len(Ascii) : CharAt(Ascii, i) = c

\* a < b for Go strings: bytewise lexicographic.
StrLess(a, b) ==
    \E i \in 1..(Len(a) + 1) :
        /\ i <= Len(b)
        /\ SubSeq(a, 1, i - 1) = SubSeq(b, 1, i - 1)
        /\ (i <= Len(a) => Code(CharAt(a, i)) < Code(CharAt(b, i)))

\* One string put at its place in a sorted sequence.
RECURSIVE InsertSorted(_, _)
InsertSorted(x, sorted) ==
    IF sorted = <<>> THEN <<x>>
    ELSE IF StrLess(Head(sorted), x) THEN <<Head(sorted)>> \o InsertSorted(x, Tail(sorted))
    ELSE <<x>> \o sorted

\* Variant of SortStrings: the slice is left as it was filled.
SortStringsNot(ss) == ss

\* sort.Strings
RECURSIVE SortStrings(_)
SortStrings(ss) ==
    IF ss = <<>> THEN <<>> ELSE InsertSorted(Head(ss), SortStrings(Tail(ss)))

\* strings.Join
RECURSIVE StringsJoin(_, _)
StringsJoin(ss, sep) ==
    IF ss = <<>> THEN ""
    ELSE IF Len(ss) = 1 THEN ss[1]
    ELSE ss[1] \o sep \o StringsJoin(Tail(ss), sep)

\* keyFromLabels, the range over the map visiting the keys in order ord.
KeyFromLabels(labels, ord) ==
    IF DOMAIN labels = {} THEN ""
    ELSE LET ks == SortStrings(ord)
         IN  StringsJoin([i \in 1..Len(ks) |-> ks[i] \o "=" \o labels[ks[i]]], ",")

MetricNames == {"events_pushed_total", "events_total"}

\* The label maps IncCounter is called with.
LabelSets ==
    {<<>>, [source |-> "gta"], [source |-> "gta", sink |-> "loki"]}

Incrementers == 1..NumThreads

Dumper == NumThreads + 1

IdleMetric ==
    [pc |-> "idle", name |-> "", labels |-> <<>>, v |-> 0, lk |-> "", tmp |-> 0,
     todo |-> {}, out |-> <<>>, ret |-> ""]

\* Variant of VecFree: cv.mu.Lock() never waits.
VecFreeAlways(m) == TRUE

\* cv.mu.Lock() goes through when no goroutine holds cv.mu.
VecFree(m) == m = 0

\* What the rest of the program does while the registry is used.
MetricsAlone ==
    UNCHANGED <<storeVars, orchVars, retryVars, applyVars, lockVars, gtaVars, cdVars>>

\* A goroutine calls IncCounter(name, labels, v).
IncCall(t) ==
    /\ mth[t].pc = "idle"
    /\ ncalls < MaxCalls
    /\ ncalls' = ncalls + 1
    /\ \E name \in MetricNames, labels \in LabelSets, v \in 1..MaxInc :
          mth' = [mth EXCEPT ![t] = [IdleMetric EXCEPT !.pc = "reg", !.name = name,
                                                       !.labels = labels, !.v = v]]
    /\ UNCHANGED <<regMu, vecMu, vecs, mdone>>
    /\ MetricsAlone

\* counters.mu.Lock()
IncRegLock(t) ==
    /\ mth[t].pc = "reg"
    /\ regMu = 0
    /\ regMu' = t
    /\ mth' = [mth EXCEPT ![t].pc = "get"]
    /\ UNCHANGED <<vecMu, vecs, mdone, ncalls>>
    /\ MetricsAlone

\* cv, ok := counters.m[name]; if !ok { create }; counters.mu.Unlock()
IncGet(t) ==
    /\ mth[t].pc = "get"
    /\ LET name == mth[t].name
       IN  IF name \in DOMAIN vecs
           THEN UNCHANGED <<vecs, vecMu>>
           ELSE /\ vecs' = vecs @@ (name :> <<>>)
                /\ vecMu' = vecMu @@ (name :> 0)
    /\ regMu' = 0
    /\ mth' = [mth EXCEPT ![t].pc = "key"]
    /\ UNCHANGED <<mdone, ncalls>>
    /\ MetricsAlone

\* lk := keyFromLabels(labels)
IncKey(t) ==
    /\ mth[t].pc = "key"
    /\ \E ord \in Orders(DOMAIN mth[t].labels) :
          mth' = [mth EXCEPT ![t].pc = "vec",
                             ![t].lk = KeyFromLabels(mth[t].labels, ord)]
    /\ UNCHANGED <<regMu, vecMu, vecs, mdone, ncalls>>
    /\ MetricsAlone

\* cv.mu.Lock()
IncVecLock(t) ==
    /\ mth[t].pc = "vec"
    /\ VecFree(vecMu[mth[t].name])
    /\ vecMu' = [vecMu EXCEPT ![mth[t].name] = t]
    /\ mth' = [mth EXCEPT ![t].pc = "read"]
    /\ UNCHANGED <<regMu, vecs, mdone, ncalls>>
    /\ MetricsAlone

\* cv.data[lk] += v: the value is read (0 for a key not yet there)
IncRead(t) ==
    /\ mth[t].pc = "read"
    /\ LET data == vecs[mth[t].name]
       IN  mth' = [mth EXCEPT ![t].pc = "write",
                              ![t].tmp = IF mth[t].lk \in DOMAIN data
                                         THEN data[mth[t].lk] ELSE 0]
    /\ UNCHANGED <<regMu, vecMu, vecs, mdone, ncalls>>
    /\ MetricsAlone

\* cv.data[lk] += v: the sum is stored
IncWrite(t) ==
    /\ mth[t].pc = "write"
    /\ LET name == mth[t].name
           lk   == mth[t].lk
           data == vecs[name]
           sum  == mth[t].tmp + mth[t].v
       IN  vecs' = [vecs EXCEPT ![name] =
                       IF lk \in DOMAIN data THEN [data EXCEPT ![lk] = sum]
                       ELSE data @@ (lk :> sum)]
    /\ mth' = [mth EXCEPT ![t].pc = "ret"]
    /\ UNCHANGED <<regMu, vecMu, mdone, ncalls>>
    /\ MetricsAlone

\* defer cv.mu.Unlock(); IncCounter returns
IncReturn(t) ==
    /\ mth[t].pc = "ret"
    /\ vecMu' = [vecMu EXCEPT ![mth[t].name] = 0]
    /\ LET c == <<mth[t].name, mth[t].labels>>
       IN  mdone' = IF c \in DOMAIN mdone THEN [mdone EXCEPT ![c] = @ + mth[t].v]
                    ELSE mdone @@ (c :> mth[t].v)
    /\ mth' = [mth EXCEPT ![t] = IdleMetric]
    /\ UNCHANGED <<regMu, vecs, ncalls>>
    /\ MetricsAlone

\* Dump is called: counters.mu.Lock()
DumpLock ==
    /\ mth[Dumper].pc = "idle"
    /\ regMu = 0
    /\ regMu' = Dumper
    /\ mth' = [mth EXCEPT ![Dumper] = [IdleMetric EXCEPT !.pc = "range",
                                                         !.todo = DOMAIN vecs]]
    /\ UNCHANGED <<vecMu, vecs, mdone, ncalls>>
    /\ MetricsAlone

\* fmt.Sprintf("%s{%s} %g", name, lk, v)
Line(name, lk, v) == name \o "{" \o lk \o "} " \o ToString(v)

\* One iteration of range counters.m, the maps visited in any order:
\* cv.mu.Lock(); a line per entry of cv.data; cv.mu.Unlock().
DumpVec ==
    /\ mth[Dumper].pc = "range"
    /\ \E name \in mth[Dumper].todo :
          /\ VecFree(vecMu[name])
          /\ \E ord \in Orders(DOMAIN vecs[name]) :
                mth' = [mth EXCEPT ![Dumper].todo = @ \ {name},
                                   ![Dumper].out = @ \o
                                       [i \in 1..Len(ord) |->
                                           Line(name, ord[i], vecs[name][ord[i]])]]
    /\ UNCHANGED <<regMu, vecMu, vecs, mdone, ncalls>>
    /\ MetricsAlone

\* sort.Strings(out); return strings.StringsJoin(out, ""); defer Unlock
DumpReturn ==
    /\ mth[Dumper].pc = "range"
    /\ mth[Dumper].todo = {}
    /\ mth' = [mth EXCEPT ![Dumper] =
                  [IdleMetric EXCEPT !.ret = StringsJoin(SortStrings(mth[Dumper].out), "")]]
    /\ regMu' = 0
    /\ UNCHANGED <<vecMu, vecs, mdone, ncalls>>
    /\ MetricsAlone

InitMetrics ==
    /\ regMu = 0
    /\ vecMu = <<>>
    /\ vecs = <<>>
    /\ mth = [t \in Incrementers \cup {Dumper} |-> IdleMetric]
    /\ mdone = <<>>
    /\ ncalls = 0
    /\ d = NilDedup /\ now = 0 /\ op = NoOp /\ lastMark = <<>>
    /\ touchOrder = <<>> /\ capEvicted = {}
    /\ srcs = <<>> /\ sinks = <<>> /\ once = FALSE /\ pc = "off" /\ cycle = 0 /\ si = 0
    /\ fetched = <<>> /\ ferr = FALSE /\ fi = 1 /\ out = <<>> /\ evs = <<>>
    /\ g = <<>> /\ res = <<>> /\ pushLog = <<>> /\ errCh = <<>> /\ wg = 0
    /\ joined = NoJoin /\ counter = <<>> /\ cancelled = FALSE /\ tickPending = FALSE
    /\ watch = NoWatch /\ prev = PrevOff
    /\ RetryOff
    /\ ApplyOff
    /\ LockOff
    /\ GtaOff
    /\ CdOff

NextMetrics ==
    \/ \E t \in Incrementers : IncCall(t)
    \/ \E t \in Incrementers : IncRegLock(t)
    \/ \E t \in Incrementers : IncGet(t)
    \/ \E t \in Incrementers : IncKey(t)
    \/ \E t \in Incrementers : IncVecLock(t)
    \/ \E t \in Incrementers : IncRead(t)
    \/ \E t \in Incrementers : IncWrite(t)
    \/ \E t \in Incrementers : IncReturn(t)
    \/ DumpLock
    \/ DumpVec
    \/ DumpReturn

SpecMetrics == InitMetrics /\ [][NextMetrics]_vars

\* The key of a label map, its keys taken in one of the possible orders.
KeyOf(labels) ==
    KeyFromLabels(labels, CHOOSE ord \in Orders(DOMAIN labels) : TRUE)

\* KeyOf, tabulated.
KeyTable == [labels \in LabelSets |-> KeyOf(labels)]

AllKeys == {KeyTable[labels] : labels \in LabelSets}

\* The value of the counter name{lk}; 0 while it does not exist.
CounterValue(name, lk) ==
    IF name \in DOMAIN vecs /\ lk \in DOMAIN vecs[name] THEN vecs[name][lk] ELSE 0

RECURSIVE SumOver(_, _)
SumOver(f, S) ==
    IF S = {} THEN 0
    ELSE LET x == CHOOSE y \in S : TRUE IN f[x] + SumOver(f, S \ {x})

\* The sum of the increments of the returned IncCounter calls whose labels
\* have the key lk.
Incremented(name, lk) ==
    SumOver(mdone, {c \in DOMAIN mdone : c[1] = name /\ KeyTable[c[2]] = lk})

\* The increments a goroutine has stored but not yet returned from.
Stored(name, lk) ==
    SumOver([t \in Incrementers |-> mth[t].v],
            {t \in Incrementers : mth[t].pc = "ret" /\ mth[t].name = name /\ mth[t].lk = lk})

FallbackOrder == <<"announcement_period", "update_period", "submission_period">>

\* filters: the primary filter, then the fallbacks other than it.
Filters(dateFilter) ==
    LET primary == IF TrimSpace(dateFilter) = "" THEN "announcement_period"
                   ELSE TrimSpace(dateFilter)
    IN  <<primary>> \o SelectSeq(FallbackOrder, LAMBDA f : f # primary)

\* g.cfg of the adapters the model runs; dates are day numbers.
GtaConfigs ==
    {[DateFilter |-> df, StatePath |-> sp, From |-> fr] :
        df \in {"", " update_period ", "in_force_on_date"},
        sp \in {"", "gta.json"},
        fr \in 0..1}

\* What a POST of one page can come to, after util.Retry: a body of rows
\* (their dates) in one of the two shapes the parser knows, a 4xx, or any
\* other failure (transport, 5xx, unreadable or unrecognised body).
GtaPages == UNION {[1..n -> 0..MaxDate] : n \in 0..MaxRows}

GtaResponses ==
    {[kind |-> "rows", shape |-> sh, rows |-> pg] :
        sh \in {"wrapped", "array"}, pg \in GtaPages}
    \cup {[kind |-> "quota", shape |-> "", rows |-> <<>>],
          [kind |-> "error", shape |-> "", rows |-> <<>>]}

RECURSIVE MaxDateOf(_, _)
MaxDateOf(rows, latest) ==
    IF rows = <<>> THEN latest
    ELSE MaxDateOf(Tail(rows), IF Head(rows) > latest THEN Head(rows) ELSE latest)

\* What the rest of the program does while the adapter fetches.
GtaAlone ==
    UNCHANGED <<storeVars, orchVars, retryVars, applyVars, lockVars, metricVars, cdVars>>

\* Fetch up to the pagination loop: the window, the filters, offset 0.
GtaEnter ==
    /\ gpc = "enter"
    /\ gfilters' = Filters(gcfg.DateFilter)
    /\ gkey' = 1
    /\ goffset' = 0
    /\ gall' = <<>>
    /\ glatest' = gcfg.From
    /\ gpc' = "request"
    /\ UNCHANGED <<gcfg, greqs, gret, gstate>>
    /\ GtaAlone

\* len(flat) == 0 after a page was parsed: `break` leaves the loop over
\* the filters, and the check after that loop leaves the pagination loop.
AfterEmptyPage(key, n) == "save"

\* One iteration of the loop over the filters: the page at offset is
\* requested with filters[gkey] and what comes back is handled, up to the
\* next request or to the end of the pagination loop.
GtaRequest ==
    /\ gpc = "request"
    /\ Len(greqs) < MaxRequests
    /\ \E r \in GtaResponses :
          /\ greqs' = Append(greqs, [key |-> gfilters[gkey], offset |-> goffset,
                                     kind |-> r.kind, rows |-> Len(r.rows)])
          /\ CASE r.kind = "error" ->
                    /\ gpc' = "done"
                    /\ gret' = [events |-> <<>>, err |-> TRUE]
                    /\ UNCHANGED <<gkey, goffset, gall, glatest>>
               [] r.kind = "quota" ->
                    /\ IF Len(gall) > 0
                       THEN gpc' = "save" /\ gret' = gret
                       ELSE gpc' = "done" /\ gret' = [events |-> <<>>, err |-> TRUE]
                    /\ UNCHANGED <<gkey, goffset, gall, glatest>>
               [] r.kind = "rows" /\ r.rows = <<>> ->
                    /\ gpc' = AfterEmptyPage(gkey, Len(gfilters))
                    /\ goffset' = IF r.shape = "array" THEN 0 ELSE goffset
                    /\ UNCHANGED <<gkey, gall, glatest, gret>>
               [] OTHER ->
                    /\ gall' = gall \o r.rows
                    /\ glatest' = MaxDateOf(r.rows, glatest)
                    /\ goffset' = (IF r.shape = "array" THEN 0 ELSE goffset) + Len(r.rows)
                    /\ gkey' = 1
                    /\ gpc' = "request"
                    /\ gret' = gret
    /\ UNCHANGED <<gcfg, gfilters, gstate>>
    /\ GtaAlone

\* After the pagination loop: the state file is written, all is returned.
GtaSave ==
    /\ gpc = "save"
    /\ gstate' = IF gcfg.StatePath # "" THEN glatest ELSE gstate
    /\ gret' = [events |-> gall, err |-> FALSE]
    /\ gpc' = "done"
    /\ UNCHANGED <<gcfg, gfilters, gkey, goffset, gall, glatest, greqs>>
    /\ GtaAlone

InitGta ==
    /\ gcfg \in GtaConfigs
    /\ gpc = "enter"
    /\ gfilters = <<>> /\ gkey = 0 /\ goffset = 0 /\ gall = <<>> /\ glatest = 0
    /\ greqs = <<>> /\ gret = <<>> /\ gstate = 0
    /\ d = NilDedup /\ now = 0 /\ op = NoOp /\ lastMark = <<>>
    /\ touchOrder = <<>> /\ capEvicted = {}
    /\ srcs = <<>> /\ sinks = <<>> /\ once = FALSE /\ pc = "off" /\ cycle = 0 /\ si = 0
    /\ fetched = <<>> /\ ferr = FALSE /\ fi = 1 /\ out = <<>> /\ evs = <<>>
    /\ g = <<>> /\ res = <<>> /\ pushLog = <<>> /\ errCh = <<>> /\ wg = 0
    /\ joined = NoJoin /\ counter = <<>> /\ cancelled = FALSE /\ tickPending = FALSE
    /\ watch = NoWatch /\ prev = PrevOff
    /\ RetryOff
    /\ ApplyOff
    /\ LockOff
    /\ MetricsOff
    /\ CdOff

NextGta ==
    \/ GtaEnter
    \/ GtaRequest
    \/ GtaSave

SpecGta == InitGta /\ [][NextGta]_vars

\* C37: when the request of a page with the primary date filter returns
\* zero rows, the same page (the same offset) is requested again with the
\* next filter of the fallback order before the fetch concludes that there
\* are no more rows.
C37_EmptyPageTriesNextFilter ==
    [][(/\ gpc = "request"
        /\ gkey = 1
        /\ Len(greqs') = Len(greqs) + 1
        /\ greqs'[Len(greqs')].kind = "rows"
        /\ greqs'[Len(greqs')].rows = 0) =>
          /\ gpc' = "request"
          /\ gkey' = 2
          /\ gfilters[gkey'] = SelectSeq(FallbackOrder, LAMBDA f : f # gfilters[1])[1]
          /\ goffset' = greqs'[Len(greqs')].offset]_vars

\* ------------------------------------------- CoinDesk adapter (endpoints)

\* time.Now() of the fetch, later than the Published of every article.
CdNow == MaxDate + 1

\* s.cfg of the adapters the model runs; durations and times in days.
CdConfigs ==
    {[Window |-> w, StatePath |-> sp, PageSize |-> ps, MaxPages |-> mp] :
        w \in 0..1, sp \in {"", "news.json"},
        ps \in 0..MaxPageCfg, mp \in 0..MaxPageCfg}

\* The window's start: rolling, else the cursor of the state file, else
\* the last 24 hours; a start after now is replaced by the last 24 hours.
CdFrom(cfg, state) ==
    LET from == IF cfg.Window > 0 THEN CdNow - cfg.Window
                ELSE IF cfg.StatePath # "" /\ state # 0 THEN state
                ELSE CdNow - 1
    IN  IF from > CdNow THEN CdNow - 1 ELSE from

CdPageSize(cfg) == IF cfg.PageSize <= 0 THEN DefaultPageSize ELSE cfg.PageSize

CdMaxPages(cfg) == IF cfg.MaxPages <= 0 THEN DefaultMaxPages ELSE cfg.MaxPages

\* What a GET of one page can come to, after util.Retry: rows (the time
\* each was published, 0 when the row has none) or a failure.
CdPages == UNION {[1..n -> 0..MaxDate] : n \in 0..MaxRows}

CdResponses ==
    {[kind |-> "rows", rows |-> pg] : pg \in CdPages}
    \cup {[kind |-> "error", rows |-> <<>>]}

\* ts of a row: its published time, now when it has none.
CdPublished(row) == IF row = 0 THEN CdNow ELSE row

RECURSIVE CdLatest(_, _)
CdLatest(rows, latest) ==
    IF rows = <<>> THEN latest
    ELSE CdLatest(Tail(rows), IF CdPublished(Head(rows)) > latest
                              THEN CdPublished(Head(rows)) ELSE latest)

\* What the rest of the program does while the adapter fetches.
CdAlone ==
    UNCHANGED <<storeVars, orchVars, retryVars, applyVars, lockVars, metricVars, gtaVars>>

\* Fetch up to the page loop of the first (and only) endpoint.
CdEnter ==
    /\ cpc = "enter"
    /\ clatest' = CdFrom(ccfg, cstate)
    /\ cevents' = <<>>
    /\ cgot' = FALSE
    /\ cpage' = 1
    /\ cpc' = "page"
    /\ UNCHANGED <<ccfg, cstate, cret>>
    /\ CdAlone

\* One iteration of the page loop: the page is requested and what comes
\* back is mapped; the loop ends on a failure, on an empty page, on a page
\* shorter than page_size and after max_pages pages.
CdPage ==
    /\ cpc = "page"
    /\ cpage <= CdMaxPages(ccfg)
    /\ \E r \in CdResponses :
          IF r.kind = "error" \/ r.rows = <<>>
          THEN /\ cpc' = "endpoint"
               /\ UNCHANGED <<cpage, cevents, clatest>>
          ELSE /\ cevents' = cevents \o [i \in 1..Len(r.rows) |-> CdPublished(r.rows[i])]
               /\ clatest' = CdLatest(r.rows, clatest)
               /\ IF Len(r.rows) < CdPageSize(ccfg) \/ cpage + 1 > CdMaxPages(ccfg)
                  THEN cpc' = "endpoint" /\ cpage' = cpage
                  ELSE cpc' = "page" /\ cpage' = cpage + 1
    /\ UNCHANGED <<ccfg, cgot, cstate, cret>>
    /\ CdAlone

\* After the page loop: if gotAny { save the cursor; break }; the list of
\* endpoints has one entry, so Fetch returns all in either case.
CdEndpoint ==
    /\ cpc = "endpoint"
    /\ cstate' = IF cgot /\ ccfg.StatePath # "" /\ clatest # 0 THEN clatest ELSE cstate
    /\ cret' = [events |-> cevents, err |-> FALSE]
    /\ cpc' = "done"
    /\ UNCHANGED <<ccfg, cpage, cevents, clatest, cgot>>
    /\ CdAlone

InitCd ==
    /\ ccfg \in CdConfigs
    /\ cstate \in 0..MaxDate
    /\ cpc = "enter"
    /\ cpage = 0 /\ cevents = <<>> /\ clatest = 0 /\ cgot = FALSE /\ cret = <<>>
    /\ d = NilDedup /\ now = 0 /\ op = NoOp /\ lastMark = <<>>
    /\ touchOrder = <<>> /\ capEvicted = {}
    /\ srcs = <<>> /\ sinks = <<>> /\ once = FALSE /\ pc = "off" /\ cycle = 0 /\ si = 0
    /\ fetched = <<>> /\ ferr = FALSE /\ fi = 1 /\ out = <<>> /\ evs = <<>>
    /\ g = <<>> /\ res = <<>> /\ pushLog = <<>> /\ errCh = <<>> /\ wg = 0
    /\ joined = NoJoin /\ counter = <<>> /\ cancelled = FALSE /\ tickPending = FALSE
    /\ watch = NoWatch /\ prev = PrevOff
    /\ RetryOff
    /\ ApplyOff
    /\ LockOff
    /\ MetricsOff
    /\ GtaOff

NextCd ==
    \/ CdEnter
    \/ CdPage
    \/ CdEndpoint

SpecCd == InitCd /\ [][NextCd]_vars

RECURSIVE MaxOf(_)
MaxOf(ts) ==
    IF Len(ts) = 1 THEN ts[1]
    ELSE LET m == MaxOf(Tail(ts)) IN IF ts[1] > m THEN ts[1] ELSE m

\* C38: after a fetch that returned at least one event, with a state path
\* configured, the cursor record holds the latest published time among
\* the returned events.
C38_CursorWrittenAfterFetch ==
    (/\ cpc = "done"
     /\ ~cret.err
     /\ cret.events # <<>>
     /\ ccfg.StatePath # "") => cstate = MaxOf(cret.events)


====
